---- MODULE Spec2Model ----
(***************************************************************************)
(* Model of the Nueva AI bridge: the ACE-Step process supervisor           *)
(* (nueva_ai_bridge/process_manager.py), the HTTP handlers that drive it   *)
(* (nueva_ai_bridge/server.py), the translation between Nueva and ACE-Step *)
(* requests and responses (nueva_ai_bridge/protocol.py) and the client of  *)
(* the ACE-Step API (nueva_ai_bridge/acestep_client.py).                   *)
(*                                                                         *)
(* The handlers are coroutines on one asyncio event loop.  A coroutine     *)
(* runs without interruption from one await that really suspends to the    *)
(* next, so every action below is one such run: from the resumption of a   *)
(* task (a probe answer, a sleep ending, a file check ending, a request    *)
(* arriving) to its next suspension or its return.  stop() has no await in *)
(* it and `await self.stop()` in restart() does not yield, so stop() and   *)
(* the beginning of restart() are single steps.                            *)
(*                                                                         *)
(* Spec and SpecTwoCallers follow the supervisor under concurrent          *)
(* requests.  SpecForward applies the forward translation to request       *)
(* bodies, and SpecProcess follows one /process request from the reading   *)
(* of its start time to its response, with the supervisor's call reduced   *)
(* to its answer and its duration.  SpecUpload follows one upload through  *)
(* its staging, its /process call and its cleanup, and SpecBridge follows  *)
(* the loop of the line protocol (nueva/bridge.py) over the lines of its   *)
(* input.  SpecTimed follows the supervisor's calls with the clock of the  *)
(* polling loop, SpecPayload the payload the client posts for a request,   *)
(* and SpecUploads several uploads that share the staging directory.       *)
(***************************************************************************)
EXTENDS Integers, Sequences, FiniteSets, TLC

\* Bounds of the model.
NTasks == 2        \* concurrent handler tasks on the event loop
MaxOrphans == 2    \* launched subprocesses that run on with no handle left

Tasks == 1..NTasks

\* The values of self._process: None, or a Popen object whose subprocess is
\* still running or has exited.
None == "none"
HandleStates == {None, "running", "exited"}

\* What one GET /health of the engine can end in (process_manager.py:48-54).
ProbeOutcomes == {"ok200", "non200", "timeout", "connect_error"}

\* The operations a task can run: POST /process, GET /health (or /status),
\* POST /restart-acestep, and the lifespan's stop().
Ops == {"process", "health", "restart", "stop"}

VARIABLES
    process,     \* self._process
    healthy,     \* self._healthy
    starting,    \* self._starting
    auto_start,  \* self.auto_start (configuration, fixed)
    orphans,     \* subprocesses still running that self._process lost
    stopLog,     \* the calls the last stop() made on its subprocess, in order
    pc,          \* per task: where the coroutine is suspended
    op,          \* per task: the operation it runs
    owner,       \* per task: it is inside start()'s try block (it set _starting)
    ret,         \* per task: what its ensure_running()/restart() returned
    status,      \* per task: HTTP status of the finished request
    did,         \* per task: what the operation has done so far
    lastProbe,   \* the most recent health_check(): outcome, value, raised
    call         \* the one request followed through translation and /process

vars == <<process, healthy, starting, auto_start, orphans, stopLog,
          pc, op, owner, ret, status, did, lastProbe, call>>

\* The supervisor's own fields, and the subprocesses.
svars == <<process, healthy, starting, orphans, stopLog>>

NoProbe == [called |-> FALSE, is200 |-> FALSE, ret |-> FALSE, raised |-> FALSE]

\* Optional[T]: None is the empty tuple, a value v is <<v>>.
Nothing == <<>>
Some(v) == <<v>>

\* No POST /generate has been made.
NoHttp == [kind |-> "none", status |-> 0, json |-> "none",
           audio_path |-> Nothing, typed |-> TRUE, metadata |-> Nothing]

\* No request is followed.
NoCall == [stage |-> "off"]

\* A request r is followed from stage st on: the locals of process_audio()
\* (request, acestep_request, acestep_response, response, start_time), the
\* time now in milliseconds, the POSTs made to the engine, what the last one
\* ended in, and the time at which client.process() was called.
NewCall(st, r) ==
    [stage |-> st, request |-> r, acestep_request |-> Nothing,
     acestep_response |-> Nothing, response |-> Nothing, http |-> NoHttp,
     posts |-> 0, now |-> 0, start_time |-> 0, call_start |-> 0]

\* The supervisor after construction.
InitSupervisor ==
    /\ process = None
    /\ healthy = FALSE
    /\ starting = FALSE
    /\ auto_start \in BOOLEAN
    /\ orphans = 0
    /\ stopLog = <<>>
    /\ pc = [t \in Tasks |-> "idle"]
    /\ op = [t \in Tasks |-> "none"]
    /\ owner = [t \in Tasks |-> FALSE]
    /\ ret = [t \in Tasks |-> "none"]
    /\ status = [t \in Tasks |-> "none"]
    /\ did = [t \in Tasks |-> {}]
    /\ lastProbe = NoProbe

Init == InitSupervisor /\ call = NoCall

----------------------------------------------------------------------------
(* AceStepProcessManager: the pieces of code the actions are built from.   *)

HealthCheck_AnyResponse(o) == [ret |-> (o \in {"ok200", "non200"}), raised |-> FALSE]

\* health_check(): the value returned (and stored in _healthy) for a probe
\* outcome, and whether an exception leaves the method.
HealthCheck(o) == [ret |-> (o = "ok200"), raised |-> FALSE]

EnsureRunningBranch_FlagFirst(ok) ==
    IF starting /\ auto_start THEN "wait"
    ELSE IF ok THEN "return_true"
    ELSE IF ~auto_start THEN "return_false"
    ELSE "start"

\* ensure_running() after its fresh probe returned `ok`.
EnsureRunningBranch(ok) ==
    IF ok THEN "return_true"
    ELSE IF ~auto_start THEN "return_false"
    ELSE IF starting THEN "wait"
    ELSE "start"

\* start(): its first statement.
StartBranch == IF starting THEN "wait" ELSE "launch"

WaitBranch_DeathUnnoticed(ok, died) ==
    IF ok THEN "return_true" ELSE "sleep"

\* _wait_for_healthy() after a probe returned `ok`, with `died` the value of
\* (self._process and self._process.poll() is not None).
WaitBranch(ok, died) ==
    IF ok THEN "return_true"
    ELSE IF died THEN "return_false"
    ELSE "sleep"

\* stop(): the ways its try block can run on a subprocess in state `st`.
\* An exited process takes terminate() as a no-op and wait() returns at once.
StopPaths(st) ==
    IF st = "running"
    THEN {"clean", "timeout", "terminate_raises", "kill_raises"}
    ELSE {"clean"}

StopEvents_NoWait(path) ==
    IF path \in {"clean", "terminate_raises"}
    THEN <<"terminate">>
    ELSE <<"terminate", "kill">>

\* stop(): the calls made on the subprocess along a path, in order.
StopEvents(path) ==
    CASE path = "clean" -> <<"terminate">>
      [] path = "timeout" -> <<"terminate", "wait_expired", "kill">>
      [] path = "terminate_raises" -> <<"terminate">>
      [] path = "kill_raises" -> <<"terminate", "wait_expired", "kill">>

\* stop(): the state of the subprocess when stop() returns.
StopExit(path, st) == IF path \in {"clean", "timeout"} THEN "exited" ELSE st

\* A subprocess the supervisor lets go of in state st runs on unowned.
Orphaned(st) == IF st = "running" THEN 1 ELSE 0

\* stop(): the supervisor after stop() took `path`.
StopResult(path) ==
    IF process = None
    THEN [process |-> process, healthy |-> healthy,
          orphans |-> orphans, stopLog |-> stopLog]
    ELSE [process |-> None, healthy |-> FALSE,
          orphans |-> orphans + Orphaned(StopExit(path, process)),
          stopLog |-> StopEvents(path)]

----------------------------------------------------------------------------
(* server.py: what a handler does with the supervisor's answer.            *)

ProcessAfterEnsure_Unchecked(v, emptyPath) ==
    IF emptyPath THEN "engine" ELSE "exists"

\* process_audio() after ensure_running() returned v; emptyPath says that
\* request.input_path is the empty string (the file check is skipped).
ProcessAfterEnsure(v, emptyPath) ==
    IF ~v THEN "503" ELSE IF emptyPath THEN "engine" ELSE "exists"

\* process_audio() after the file check.
ProcessAfterExists(exists) == IF exists THEN "engine" ELSE "400"

\* restart_acestep() after restart() returned v.
RestartStatus(v) == IF v THEN "200" ELSE "500"

\* The boolean a supervisor call returns, as the model stores it.
Shown(v) == IF v THEN "true" ELSE "false"

----------------------------------------------------------------------------
(* Steps shared by the actions.  None of them assigns the supervisor's     *)
(* fields: the action that uses them does.                                 *)

\* The supervisor call (ensure_running(), or restart()) made by operation o of
\* task t returns v; the handler goes on to its next suspension or
\* to its answer.  d is what the operation has done so far.
Return(t, o, v, d) ==
    /\ ret' = [ret EXCEPT ![t] = Shown(v)]
    /\ owner' = [owner EXCEPT ![t] = FALSE]
    /\ op' = [op EXCEPT ![t] = o]
    /\ IF o = "process"
       THEN \E emptyPath \in BOOLEAN :
              LET b == ProcessAfterEnsure(v, emptyPath) IN
              /\ pc' = [pc EXCEPT ![t] = CASE b = "503" -> "done"
                                           [] b = "exists" -> "p_exists"
                                           [] b = "engine" -> "p_engine"]
              /\ status' = [status EXCEPT ![t] = IF b = "503" THEN "503" ELSE @]
              /\ did' = [did EXCEPT ![t] = IF b = "engine" THEN d \cup {"engine"} ELSE d]
       ELSE /\ pc' = [pc EXCEPT ![t] = "done"]
            /\ status' = [status EXCEPT ![t] = RestartStatus(v)]
            /\ did' = [did EXCEPT ![t] = d]

\* Task t enters _wait_for_healthy(): the loop condition holds on entry and
\* the first probe is sent.
EnterWait(t, o, own, d) ==
    /\ pc' = [pc EXCEPT ![t] = "wfh_probe"]
    /\ op' = [op EXCEPT ![t] = o]
    /\ owner' = [owner EXCEPT ![t] = own]
    /\ did' = [did EXCEPT ![t] = d \cup {"wait", "probe"}]
    /\ UNCHANGED <<ret, status>>

\* An exception leaves the handler of task t.
Raise(t) ==
    /\ pc' = [pc EXCEPT ![t] = "done"]
    /\ owner' = [owner EXCEPT ![t] = FALSE]
    /\ status' = [status EXCEPT ![t] = "500"]
    /\ UNCHANGED <<op, ret, did>>

\* Task t runs start() with pr0 in self._process and n0 orphans.  Popen
\* either creates a subprocess, whose handle replaces pr0, or raises; the
\* finally clause resets _starting on the path that returns here.
EnterStart(t, o, pr0, n0, d) ==
    IF StartBranch = "wait"
    THEN /\ process' = pr0
         /\ orphans' = n0
         /\ starting' = starting
         /\ EnterWait(t, o, FALSE, d)
    ELSE \/ /\ n0 + Orphaned(pr0) <= MaxOrphans
            /\ process' = "running"
            /\ orphans' = n0 + Orphaned(pr0)
            /\ starting' = TRUE
            /\ EnterWait(t, o, TRUE, d \cup {"popen", "launched"})
         \/ /\ process' = pr0
            /\ orphans' = n0
            /\ starting' = FALSE
            /\ Return(t, o, FALSE, d \cup {"popen"})

StartingAfterWait_AnyCallerClears(t) == FALSE

\* What the finally clause of start() leaves in _starting when task t returns
\* from _wait_for_healthy().
StartingAfterWait(t) == IF owner[t] THEN FALSE ELSE starting

\* The record health_check() leaves for probe outcome o.
Probed(o) == [called |-> TRUE, is200 |-> (o = "ok200"), ret |-> HealthCheck(o).ret, raised |-> HealthCheck(o).raised]


----------------------------------------------------------------------------
(* The actions: one per resumption of a task.                              *)

\* A request that arrives is served by the first free task: free tasks do not
\* differ.
Free(t) == pc[t] = "idle" /\ \A u \in Tasks : u < t => pc[u] # "idle"

\* GET /health or GET /status arrives: the handler sends a probe.
BeginHealth(t) ==
    /\ UNCHANGED call
    /\ Free(t)
    /\ pc' = [pc EXCEPT ![t] = "hc_probe"]
    /\ op' = [op EXCEPT ![t] = "health"]
    /\ did' = [did EXCEPT ![t] = {"probe"}]
    /\ UNCHANGED <<svars, auto_start, owner, ret, status, lastProbe>>

\* POST /process arrives with a body that passed the schema: the handler
\* calls ensure_running(), whose first statement sends a probe.
BeginProcess(t) ==
    /\ UNCHANGED call
    /\ Free(t)
    /\ pc' = [pc EXCEPT ![t] = "er_probe"]
    /\ op' = [op EXCEPT ![t] = "process"]
    /\ did' = [did EXCEPT ![t] = {"probe"}]
    /\ UNCHANGED <<svars, auto_start, owner, ret, status, lastProbe>>

\* The lifespan handler shuts down: stop() runs from its first line to its
\* return.
BeginStop(t) ==
    /\ UNCHANGED call
    /\ Free(t)
    /\ \E path \in StopPaths(process) :
         LET r == StopResult(path) IN
         /\ r.orphans <= MaxOrphans
         /\ process' = r.process
         /\ healthy' = r.healthy
         /\ orphans' = r.orphans
         /\ stopLog' = r.stopLog
    /\ starting' = starting
    /\ pc' = [pc EXCEPT ![t] = "done"]
    /\ op' = [op EXCEPT ![t] = "stop"]
    /\ UNCHANGED <<auto_start, owner, ret, status, did, lastProbe>>

\* POST /restart-acestep arrives: restart() runs stop() and then start() up
\* to start()'s first suspension or return.
BeginRestart(t) ==
    /\ UNCHANGED call
    /\ Free(t)
    /\ \E path \in StopPaths(process) :
         LET r == StopResult(path) IN
         /\ r.orphans <= MaxOrphans
         /\ healthy' = r.healthy
         /\ stopLog' = r.stopLog
         /\ EnterStart(t, "restart", r.process, r.orphans, {})
    /\ UNCHANGED <<auto_start, lastProbe>>

\* The fresh probe of ensure_running() answers.
ErProbeReturn(t) ==
    /\ UNCHANGED call
    /\ pc[t] = "er_probe"
    /\ \E o \in ProbeOutcomes :
         /\ lastProbe' = Probed(o)
         /\ IF HealthCheck(o).raised
            THEN /\ Raise(t)
                 /\ UNCHANGED svars
            ELSE /\ healthy' = HealthCheck(o).ret
                 /\ stopLog' = stopLog
                 /\ LET b == EnsureRunningBranch(HealthCheck(o).ret) IN
                    CASE b = "return_true" ->
                           /\ UNCHANGED <<process, starting, orphans>>
                           /\ Return(t, op[t], TRUE, did[t])
                      [] b = "return_false" ->
                           /\ UNCHANGED <<process, starting, orphans>>
                           /\ Return(t, op[t], FALSE, did[t])
                      [] b = "wait" ->
                           /\ UNCHANGED <<process, starting, orphans>>
                           /\ EnterWait(t, op[t], FALSE, did[t])
                      [] b = "start" ->
                           EnterStart(t, op[t], process, orphans, did[t])
    /\ UNCHANGED auto_start

\* A probe of the _wait_for_healthy() loop answers.
WfhProbeReturn(t) ==
    /\ UNCHANGED call
    /\ pc[t] = "wfh_probe"
    /\ \E o \in ProbeOutcomes :
         /\ lastProbe' = Probed(o)
         /\ UNCHANGED <<process, orphans, stopLog>>
         /\ IF HealthCheck(o).raised
            THEN /\ Raise(t)
                 /\ healthy' = healthy
                 /\ starting' = StartingAfterWait(t)
            ELSE /\ healthy' = HealthCheck(o).ret
                 /\ LET died == process # None /\ process = "exited"
                        b == WaitBranch(HealthCheck(o).ret, died)
                    IN CASE b = "return_true" ->
                              /\ starting' = StartingAfterWait(t)
                              /\ Return(t, op[t], TRUE, did[t])
                         [] b = "return_false" ->
                              /\ starting' = StartingAfterWait(t)
                              /\ Return(t, op[t], FALSE, did[t])
                         [] b = "sleep" ->
                              /\ starting' = starting
                              /\ pc' = [pc EXCEPT ![t] = "wfh_sleep"]
                              /\ UNCHANGED <<op, owner, ret, status, did>>
    /\ UNCHANGED auto_start

\* The sleep of the _wait_for_healthy() loop ends and the loop condition is
\* read: the startup_timeout has elapsed, or it has not and the next probe
\* is sent.
WfhSleepReturn(t) ==
    /\ UNCHANGED call
    /\ pc[t] = "wfh_sleep"
    /\ UNCHANGED <<process, healthy, orphans, stopLog, auto_start, lastProbe>>
    /\ \/ /\ starting' = StartingAfterWait(t)
          /\ Return(t, op[t], FALSE, did[t])
       \/ /\ starting' = starting
          /\ pc' = [pc EXCEPT ![t] = "wfh_probe"]
          /\ did' = [did EXCEPT ![t] = @ \cup {"probe"}]
          /\ UNCHANGED <<op, owner, ret, status>>

\* The probe of GET /health or GET /status answers.
HcProbeReturn(t) ==
    /\ UNCHANGED call
    /\ pc[t] = "hc_probe"
    /\ \E o \in ProbeOutcomes :
         /\ lastProbe' = Probed(o)
         /\ IF HealthCheck(o).raised
            THEN /\ Raise(t)
                 /\ healthy' = healthy
            ELSE /\ healthy' = HealthCheck(o).ret
                 /\ pc' = [pc EXCEPT ![t] = "done"]
                 /\ status' = [status EXCEPT ![t] = "200"]
                 /\ UNCHANGED <<op, owner, ret, did>>
    /\ UNCHANGED <<process, starting, orphans, stopLog, auto_start>>

\* The check that request.input_path exists answers: 400, or the request is
\* translated and the Engine Client's process() is called.
ExistsReturn(t) ==
    /\ UNCHANGED call
    /\ pc[t] = "p_exists"
    /\ \E exists \in BOOLEAN :
         LET b == ProcessAfterExists(exists) IN
         /\ pc' = [pc EXCEPT ![t] = IF b = "engine" THEN "p_engine" ELSE "done"]
         /\ status' = [status EXCEPT ![t] = IF b = "engine" THEN @ ELSE b]
         /\ did' = [did EXCEPT ![t] = IF b = "engine" THEN @ \cup {"engine"} ELSE @]
    /\ UNCHANGED <<svars, auto_start, op, owner, ret, lastProbe>>

EngineReturn_MarksUnhealthy(t) ==
    /\ UNCHANGED call
    /\ pc[t] = "p_engine"
    /\ pc' = [pc EXCEPT ![t] = "done"]
    /\ status' = [status EXCEPT ![t] = "200"]
    /\ healthy' = FALSE
    /\ UNCHANGED <<process, starting, orphans, stopLog, auto_start, op, owner,
                   ret, did, lastProbe>>

\* The Engine Client's process() returns a result, which is translated back
\* and answered.
EngineReturn(t) ==
    /\ UNCHANGED call
    /\ pc[t] = "p_engine"
    /\ pc' = [pc EXCEPT ![t] = "done"]
    /\ status' = [status EXCEPT ![t] = "200"]
    /\ UNCHANGED <<svars, auto_start, op, owner, ret, did, lastProbe>>

\* The answer of task t is sent; the task is free for the next request.
Finish(t) ==
    /\ UNCHANGED call
    /\ pc[t] = "done"
    /\ pc' = [pc EXCEPT ![t] = "idle"]
    /\ op' = [op EXCEPT ![t] = "none"]
    /\ ret' = [ret EXCEPT ![t] = "none"]
    /\ status' = [status EXCEPT ![t] = "none"]
    /\ did' = [did EXCEPT ![t] = {}]
    /\ UNCHANGED <<svars, auto_start, owner, lastProbe>>

\* The subprocess self._process refers to exits by itself.
ProcExit ==
    /\ UNCHANGED call
    /\ process = "running"
    /\ process' = "exited"
    /\ UNCHANGED <<healthy, starting, orphans, stopLog, auto_start,
                   pc, op, owner, ret, status, did, lastProbe>>

\* A subprocess the supervisor no longer refers to exits by itself.
OrphanExit ==
    /\ UNCHANGED call
    /\ orphans > 0
    /\ orphans' = orphans - 1
    /\ UNCHANGED <<process, healthy, starting, stopLog, auto_start,
                   pc, op, owner, ret, status, did, lastProbe>>

Next ==
    \/ \E t \in Tasks : BeginHealth(t)
    \/ \E t \in Tasks : BeginProcess(t)
    \/ \E t \in Tasks : BeginStop(t)
    \/ \E t \in Tasks : BeginRestart(t)
    \/ \E t \in Tasks : ErProbeReturn(t)
    \/ \E t \in Tasks : WfhProbeReturn(t)
    \/ \E t \in Tasks : WfhSleepReturn(t)
    \/ \E t \in Tasks : HcProbeReturn(t)
    \/ \E t \in Tasks : ExistsReturn(t)
    \/ \E t \in Tasks : EngineReturn(t)
    \/ \E t \in Tasks : Finish(t)
    \/ ProcExit
    \/ OrphanExit

Spec == Init /\ [][Next]_vars

\* Two POST /process requests and nothing else: each task serves one request.
NextTwoCallers ==
    \/ \E t \in Tasks : BeginProcess(t)
    \/ \E t \in Tasks : ErProbeReturn(t)
    \/ \E t \in Tasks : WfhProbeReturn(t)
    \/ \E t \in Tasks : WfhSleepReturn(t)
    \/ \E t \in Tasks : ExistsReturn(t)
    \/ \E t \in Tasks : EngineReturn(t)
    \/ ProcExit
    \/ OrphanExit

SpecTwoCallers == Init /\ [][NextTwoCallers]_vars

----------------------------------------------------------------------------
(* process_manager.py: _wait_for_healthy() with its clock.  Time is        *)
(* counted in units of health_check_interval; each task serves one         *)
(* request, so a task enters the loop at most once and its time in the     *)
(* loop is counted from zero.                                              *)

startup_timeout == 3   \* in units of health_check_interval
MaxSlept == 2          \* the time one iteration takes, in the same units

\* The supervisor's part of the state when the loop's clock is followed:
\* for each task the time since it read start_time.
NewTimed == [stage |-> "timed", elapsed |-> [t \in Tasks |-> 0]]

InitTimed == InitSupervisor /\ call = NewTimed

LoopCondition_Always(elapsed) == TRUE

\* asyncio.get_event_loop().time() - start_time < self.startup_timeout
LoopCondition(elapsed) == elapsed < startup_timeout

\* The sleep of the _wait_for_healthy() loop ends d units after the loop
\* condition was last read, and the condition is read again: the loop is
\* left with False, or the next probe is sent.
TimedSleepReturn(t) ==
    /\ call.stage = "timed"
    /\ pc[t] = "wfh_sleep"
    /\ UNCHANGED <<process, healthy, orphans, stopLog, auto_start, lastProbe>>
    /\ \E d \in 1..MaxSlept :
         LET e == IF call.elapsed[t] + d < startup_timeout
                  THEN call.elapsed[t] + d ELSE startup_timeout
         IN /\ call' = [call EXCEPT !.elapsed[t] = e]
            /\ IF LoopCondition(e)
               THEN /\ starting' = starting
                    /\ pc' = [pc EXCEPT ![t] = "wfh_probe"]
                    /\ did' = [did EXCEPT ![t] = @ \cup {"probe"}]
                    /\ UNCHANGED <<op, owner, ret, status>>
               ELSE /\ starting' = StartingAfterWait(t)
                    /\ Return(t, op[t], FALSE, did[t])

\* No request of kind o has arrived.
NotYet(o) == \A u \in Tasks : op[u] # o

\* POST /process, POST /restart-acestep and the shutdown's stop(), one of
\* each at most, each task serving one request and followed until its
\* supervisor call returns.
NextTimed ==
    \/ \E t \in Tasks : NotYet("process") /\ BeginProcess(t)
    \/ \E t \in Tasks : NotYet("restart") /\ BeginRestart(t)
    \/ \E t \in Tasks : NotYet("stop") /\ BeginStop(t)
    \/ \E t \in Tasks : ErProbeReturn(t)
    \/ \E t \in Tasks : WfhProbeReturn(t)
    \/ \E t \in Tasks : TimedSleepReturn(t)
    \/ ProcExit

\* Every probe answers (health_check() has a timeout of its own) and every
\* sleep ends: a task that waits for one of them is resumed.
FairTimed ==
    \A t \in Tasks :
      /\ WF_vars(ErProbeReturn(t))
      /\ WF_vars(WfhProbeReturn(t))
      /\ WF_vars(TimedSleepReturn(t))

SpecTimed == InitTimed /\ [][NextTimed]_vars /\ FairTimed


----------------------------------------------------------------------------
(* protocol.py: the values.  A str is the sequence of its pieces: a prompt *)
(* is the sequence of its characters, since the code looks inside it; a    *)
(* message is the sequence of the pieces its f-string joins.  A dict is a  *)
(* function on its keys, a float a fraction num/den with den > 0.          *)

\* Bounds of the inputs.
MaxDen == 2      \* the intensities tried are the fractions n/d with d up to MaxDen
MaxSeed == 1     \* the seeds tried are 0..MaxSeed
MaxDelay == 2    \* an await takes 0..MaxDelay milliseconds

\* The supervisor's and the handlers' variables.
mvars == <<process, healthy, starting, auto_start, orphans, stopLog,
           pc, op, owner, ret, status, did, lastProbe>>

\* class AceStepMode.
AceStepMode == {"transform", "cover", "repaint", "extract", "layer", "complete"}

NUEVA_TO_ACESTEP_TASK ==
    [m \in AceStepMode |->
       CASE m = "transform" -> "text2music"
         [] m = "cover" -> "cover"
         [] m = "repaint" -> "repaint"
         [] m = "extract" -> "extract"
         [] m = "layer" -> "lego"
         [] m = "complete" -> "complete"]

\* {} and d[k] = v.
EmptyDict == <<>>
Put(d, k, v) == (k :> v) @@ d

\* bool(o) of an Optional[str] or Optional[list]: neither None nor empty.
Truthy(o) == o # Nothing /\ o[1] # <<>>

\* The letters, for str.lower().
Lowercase == <<"a", "b", "c", "d", "e", "f", "g", "h", "i", "j", "k", "l", "m",
              "n", "o", "p", "q", "r", "s", "t", "u", "v", "w", "x", "y", "z">>
Uppercase == <<"A", "B", "C", "D", "E", "F", "G", "H", "I", "J", "K", "L", "M",
              "N", "O", "P", "Q", "R", "S", "T", "U", "V", "W", "X", "Y", "Z">>

\* What a function call ends in: a value returned, or an exception raised.
Ok(v) == [raised |-> "", value |-> v]
Raised(e) == [raised |-> e, value |-> Nothing]

\* a <= b and a = b on fractions.
Le(a, b) == a.num * b.den <= b.num * a.den
Eq(a, b) == a.num * b.den = b.num * a.den
Frac(n, d) == [num |-> n, den |-> d]

\* A NuevaRequest (or the body it is to be built from).
NuevaRequest(m, ip, outp, p, i, pm, pt, pk, et, al, rl, s, x) ==
    [mode |-> m, input_path |-> ip, output_path |-> outp, prompt |-> p,
     intensity |-> i, preserve_melody |-> pm, preserve_tempo |-> pt,
     preserve_key |-> pk, extract_target |-> et, add_layers |-> al,
     remove_layers |-> rl, duration_seconds |-> Nothing, seed |-> s,
     extra_params |-> x]

\* NuevaRequest.intensity: Field(ge=0.0, le=1.0).
IntensityAccepted(i) == 0 <= i.num /\ i.num <= i.den

\* The validation that constructs a NuevaRequest from a body.
RequestAccepted(r) == r.mode \in AceStepMode /\ IntensityAccepted(r.intensity)

----------------------------------------------------------------------------
(* protocol.py: nueva_to_acestep().                                        *)

GuidanceScale_NoOffset(i) == Frac(i.num * 12, i.den)

\* guidance_scale = 3.0 + (request.intensity * 12.0)
GuidanceScale(i) == Frac(3 * i.den + i.num * 12, i.den)

ModeKwargs_TargetNotNone(r) ==
    CASE r.mode = "cover" ->
           Put(Put(Put(EmptyDict, "preserve_melody", r.preserve_melody),
                   "preserve_tempo", r.preserve_tempo),
               "preserve_key", r.preserve_key)
      [] r.mode = "extract" ->
           IF r.extract_target # Nothing
           THEN Put(EmptyDict, "target", r.extract_target[1])
           ELSE EmptyDict
      [] r.mode = "layer" ->
           LET a == IF Truthy(r.add_layers)
                    THEN Put(EmptyDict, "add_instruments", r.add_layers[1])
                    ELSE EmptyDict
           IN IF Truthy(r.remove_layers)
              THEN Put(a, "remove_instruments", r.remove_layers[1])
              ELSE a
      [] OTHER -> EmptyDict

\* The kwargs the mode branches set.
ModeKwargs(r) ==
    CASE r.mode = "cover" ->
           Put(Put(Put(EmptyDict, "preserve_melody", r.preserve_melody),
                   "preserve_tempo", r.preserve_tempo),
               "preserve_key", r.preserve_key)
      [] r.mode = "extract" ->
           IF Truthy(r.extract_target)
           THEN Put(EmptyDict, "target", r.extract_target[1])
           ELSE EmptyDict
      [] r.mode = "layer" ->
           LET a == IF Truthy(r.add_layers)
                    THEN Put(EmptyDict, "add_instruments", r.add_layers[1])
                    ELSE EmptyDict
           IN IF Truthy(r.remove_layers)
              THEN Put(a, "remove_instruments", r.remove_layers[1])
              ELSE a
      [] OTHER -> EmptyDict

SeedKwargs_Truthy(r, kw) ==
    IF r.seed # Nothing /\ r.seed[1] # 0 THEN Put(kw, "seed", r.seed[1]) ELSE kw

\* if request.seed is not None: kwargs["seed"] = request.seed
SeedKwargs(r, kw) == IF r.seed # Nothing THEN Put(kw, "seed", r.seed[1]) ELSE kw

\* The kwargs before extra_params is merged in.
ComputedKwargs(r) == SeedKwargs(r, ModeKwargs(r))

MergeExtra_KeepComputed(kw, extra) == kw @@ extra

\* kwargs.update(request.extra_params)
MergeExtra(kw, extra) == extra @@ kw

nueva_to_acestep(r) ==
    [task |-> NUEVA_TO_ACESTEP_TASK[r.mode],
     audio_path |-> Some(r.input_path),
     prompt |-> r.prompt,
     guidance_scale |-> GuidanceScale(r.intensity),
     num_inference_steps |-> 50,
     audio_duration |-> r.duration_seconds,
     kwargs |-> MergeExtra(ComputedKwargs(r), r.extra_params)]

----------------------------------------------------------------------------
(* protocol.py: acestep_to_nueva().                                        *)

\* `sub in s` on str.
Contains(sub, s) ==
    \E i \in 0..(Len(s) - Len(sub)) : \A j \in 1..Len(sub) : s[i + j] = sub[j]

\* The lower-case form of one character.
ToLower(c) ==
    IF \E i \in 1..Len(Uppercase) : Uppercase[i] = c
    THEN Lowercase[CHOOSE i \in 1..Len(Uppercase) : Uppercase[i] = c]
    ELSE c

StrLower_AsIs(s) == s

\* str.lower()
StrLower(s) == [i \in 1..Len(s) |-> ToLower(s[i])]

\* original_request.prompt.lower(): None has no such method.
PromptLower(p) ==
    IF p = Nothing THEN Raised("AttributeError") ELSE Ok(StrLower(p[1]))

PromptGiven_NotEmptyStr(p) == p # Some(<<>>)

\* `if original_request.prompt`
PromptGiven(p) == Truthy(p)

\* The genre names looked for in the prompt of a cover, and the word looked
\* for in the prompt of a transform.
Genres == {<<"j", "a", "z", "z">>, <<"r", "o", "c", "k">>,
           <<"c", "l", "a", "s", "s", "i", "c", "a", "l">>,
           <<"e", "l", "e", "c", "t", "r", "o", "n", "i", "c">>}
Vintage == <<"v", "i", "n", "t", "a", "g", "e">>

\* The artifacts of mode base, with `extra` appended when the prompt is given
\* and its lower-case form contains one of `words`.
PromptArtifacts(base, extra, words, p) ==
    IF PromptGiven(p)
    THEN LET l == PromptLower(p) IN
         IF l.raised # "" THEN l
         ELSE Ok(IF \E w \in words : Contains(w, l.value)
                 THEN Append(base, extra)
                 ELSE base)
    ELSE Ok(base)

\* The intentional artifacts of a mode and a prompt.
Artifacts(mode, p) ==
    CASE mode = "cover" ->
           PromptArtifacts(<<"cover_timbre", "different_timbre">>,
                           "genre_transformation", Genres, p)
      [] mode = "transform" ->
           PromptArtifacts(<<"intentional_coloration">>,
                           "frequency_rolloff", {Vintage}, p)
      [] mode = "extract" -> Ok(<<"vocal_extraction_artifacts">>)
      [] mode = "layer" -> Ok(<<"layer_artifacts">>)
      [] OTHER -> Ok(<<>>)

mode_desc ==
    [m \in AceStepMode |->
       CASE m = "transform" -> "Generated music from prompt"
         [] m = "cover" -> "Created cover version"
         [] m = "repaint" -> "Repainted audio region"
         [] m = "extract" -> "Extracted audio sources"
         [] m = "layer" -> "Modified instrument layers"
         [] m = "complete" -> "Added accompaniment"]

\* The description of a success.
Description(mode, p) ==
    IF PromptGiven(p)
    THEN <<mode_desc[mode], ": '">> \o p[1] \o <<"'">>
    ELSE <<mode_desc[mode]>>

\* f"{x}" of an Optional[str].
Format(o) == IF o = Nothing THEN <<"None">> ELSE o[1]

\* The response to an engine result with success=False.
FailureResponse(a, ms) ==
    [success |-> FALSE, output_path |-> Nothing, processing_time_ms |-> ms,
     description |-> <<"ACE-Step processing failed: ">> \o Format(a.error),
     intentional_artifacts |-> <<>>, warnings |-> <<>>,
     error_code |-> Some("ACESTEP_ERROR"), error_message |-> a.error,
     metadata |-> EmptyDict]

OutputPath_EngineOnly(a, r) == a.audio_path

OutputPath_RequestOnly(a, r) == Some(r.output_path)

\* output_path=acestep_response.audio_path or original_request.output_path
OutputPath(a, r) ==
    Some(IF Truthy(a.audio_path) THEN a.audio_path[1] ELSE r.output_path)

acestep_to_nueva(a, r, ms) ==
    IF ~a.success
    THEN Ok(FailureResponse(a, ms))
    ELSE LET art == Artifacts(r.mode, r.prompt) IN
         IF art.raised # "" THEN art
         ELSE Ok([success |-> TRUE, output_path |-> OutputPath(a, r),
                  processing_time_ms |-> ms,
                  description |-> Description(r.mode, r.prompt),
                  intentional_artifacts |-> art.value, warnings |-> <<>>,
                  error_code |-> Nothing, error_message |-> Nothing,
                  metadata |-> a.metadata])

----------------------------------------------------------------------------
(* acestep_client.py: AceStepClient.process() and get_client().            *)

\* What the POST /generate can end in: no connection, no answer in time, or
\* a response with a status and a body.  The body is not JSON, a JSON array,
\* or a JSON object whose audio_path is missing, a str or of another type
\* (typed = FALSE) and whose metadata is missing or an object.
Response(st, js, ap, ty, md) ==
    [kind |-> "response", status |-> st, json |-> js, audio_path |-> ap,
     typed |-> ty, metadata |-> md]

EngineWav == <<"engine.wav">>

HttpOutcomes ==
    {[kind |-> k, status |-> 0, json |-> "none", audio_path |-> Nothing,
      typed |-> TRUE, metadata |-> Nothing] : k \in {"connect_error", "timeout"}}
    \cup {Response(st, "invalid", Nothing, TRUE, Nothing) : st \in {204, 500}}
    \cup {Response(200, js, Nothing, TRUE, Nothing) : js \in {"invalid", "array"}}
    \cup {Response(200, "object", Some(EngineWav), FALSE, Nothing)}
    \cup {Response(200, "object", ap, TRUE, Nothing) :
            ap \in {Nothing, Some(EngineWav), Some(<<>>)}}
    \cup {Response(200, "object", Some(EngineWav), TRUE, Some("model" :> "v1"))}

\* An AceStepResponse with success=False.
Failed(msg) ==
    [success |-> FALSE, audio_path |-> Nothing, error |-> Some(msg),
     metadata |-> EmptyDict]

\* process(): its try block.
ClientTry(h) ==
    CASE h.kind = "timeout" -> Raised("TimeoutException")
      [] h.kind = "connect_error" -> Raised("ConnectError")
      [] h.kind = "response" /\ h.status # 200 ->
           Ok(Failed(<<"ACE-Step API error: ", ToString(h.status), " - ", "text">>))
      [] h.kind = "response" /\ h.status = 200 /\ h.json = "invalid" ->
           Raised("JSONDecodeError")
      [] h.kind = "response" /\ h.status = 200 /\ h.json = "array" ->
           Raised("AttributeError")
      [] h.kind = "response" /\ h.status = 200 /\ h.json = "object" /\ ~h.typed ->
           Raised("ValidationError")
      [] h.kind = "response" /\ h.status = 200 /\ h.json = "object" /\ h.typed ->
           Ok([success |-> TRUE, audio_path |-> h.audio_path, error |-> Nothing,
               metadata |-> IF h.metadata = Nothing THEN EmptyDict ELSE h.metadata[1]])

ClientProcess_NoCatchAll(h) ==
    LET r == ClientTry(h) IN
    CASE r.raised = "" -> r
      [] r.raised = "TimeoutException" ->
           Ok(Failed(<<"ACE-Step request timed out after ", "300.0", "s">>))
      [] r.raised = "ConnectError" ->
           Ok(Failed(<<"Could not connect to ACE-Step API: ", r.raised>>))
      [] OTHER -> r

\* process(): the try block and its except clauses.
ClientProcess(h) ==
    LET r == ClientTry(h) IN
    CASE r.raised = "" -> r
      [] r.raised = "TimeoutException" ->
           Ok(Failed(<<"ACE-Step request timed out after ", "300.0", "s">>))
      [] r.raised = "ConnectError" ->
           Ok(Failed(<<"Could not connect to ACE-Step API: ", r.raised>>))
      [] OTHER -> Ok(Failed(<<"ACE-Step client error: ", r.raised>>))

\* get_client(): float() of NUEVA_ACESTEP_TIMEOUT_MS raises when the text is
\* not a number.
GetClient(numeric) == IF numeric THEN Ok("client") ELSE Raised("ValueError")

----------------------------------------------------------------------------
(* server.py: process_audio(), followed for one request.                   *)

\* The response of the except clause of process_audio().
ExceptionResponse(e, ms) ==
    [success |-> FALSE, output_path |-> Nothing, processing_time_ms |-> ms,
     description |-> <<"Processing failed: ", e>>,
     intentional_artifacts |-> <<>>, warnings |-> <<>>,
     error_code |-> Some("PROCESSING_ERROR"), error_message |-> Some(<<e>>),
     metadata |-> EmptyDict]

CallEngine_Unguarded(c) ==
    \E numeric \in BOOLEAN :
      LET g == GetClient(numeric)
          c1 == [c EXCEPT !.acestep_request = Some(nueva_to_acestep(c.request))]
      IN call' = IF g.raised = ""
                 THEN [c1 EXCEPT !.posts = @ + 1, !.call_start = c.now,
                                 !.stage = "engine"]
                 ELSE [c1 EXCEPT !.stage = "raised"]

\* The try block of process_audio() up to the await of client.process(), for
\* the call c: the request is translated, the client is fetched and the POST
\* is sent.
CallEngine(c) ==
    \E numeric \in BOOLEAN :
      LET g == GetClient(numeric)
          c1 == [c EXCEPT !.acestep_request = Some(nueva_to_acestep(c.request))]
      IN call' = IF g.raised = ""
                 THEN [c1 EXCEPT !.posts = @ + 1, !.call_start = c.now,
                                 !.stage = "engine"]
                 ELSE [c1 EXCEPT !.stage = "done",
                                 !.response = Some(ExceptionResponse(
                                                g.raised, c.now - c.start_time))]

\* ensure_running() returns v after d milliseconds (a probe only, or a start
\* and its polling): 503, the file check, or the engine call.
ProcessEnsured ==
    /\ call.stage = "ensure"
    /\ \E d \in 0..MaxDelay, v \in BOOLEAN :
         LET b == ProcessAfterEnsure(v, call.request.input_path = <<>>)
             c == [call EXCEPT !.now = @ + d]
         IN CASE b = "503" -> call' = [c EXCEPT !.stage = "http503"]
              [] b = "exists" -> call' = [c EXCEPT !.stage = "exists"]
              [] b = "engine" -> CallEngine(c)
    /\ UNCHANGED mvars

\* The file check answers after d milliseconds: 400, or the engine call.
ProcessFileChecked ==
    /\ call.stage = "exists"
    /\ \E d \in 0..MaxDelay, exists \in BOOLEAN :
         LET b == ProcessAfterExists(exists)
             c == [call EXCEPT !.now = @ + d]
         IN IF b = "400"
            THEN call' = [c EXCEPT !.stage = "http400"]
            ELSE CallEngine(c)
    /\ UNCHANGED mvars

\* The POST /generate ends in h after d milliseconds (a timeout after the
\* longest wait): client.process() returns, the elapsed time is taken and the
\* result is translated back.
ProcessEngineAnswered ==
    /\ call.stage = "engine"
    /\ \E h \in HttpOutcomes, d \in 0..MaxDelay :
         LET t == call.now + d
             ms == t - call.start_time
             r == ClientProcess(h)
             back == acestep_to_nueva(r.value, call.request, ms)
         IN /\ h.kind = "timeout" => d = MaxDelay
            /\ call' = [call EXCEPT
                          !.now = t,
                          !.http = h,
                          !.stage = "done",
                          !.acestep_response =
                             IF r.raised # "" THEN Nothing ELSE Some(r.value),
                          !.response =
                             Some(IF r.raised # ""
                                  THEN ExceptionResponse(r.raised, ms)
                                  ELSE IF back.raised # ""
                                       THEN ExceptionResponse(back.raised, ms)
                                       ELSE back.value)]
    /\ UNCHANGED mvars

----------------------------------------------------------------------------
(* The inputs tried, and the two specifications of the protocol.           *)

\* The intensities a body can carry: n/d from just below 0 to just above 1.
RawIntensities == UNION {{Frac(n, d) : n \in (-1)..(d + 1)} : d \in 1..MaxDen}

Seeds == {Nothing} \cup {Some(s) : s \in 0..MaxSeed}
Targets == {Nothing, Some(<<>>), Some(<<"vocals">>)}
Layers == {Nothing, Some(<<>>), Some(<<"piano">>)}

\* extra_params: empty, a key of its own, or keys the translation also sets.
ExtraParams ==
    {EmptyDict,
     "custom" :> 1,
     "seed" :> 7,
     "preserve_melody" :> FALSE,
     "target" :> <<"drums">>,
     ("seed" :> 7) @@ ("remove_instruments" :> <<"bass">>)}

\* The prompts tried: none, or a word that is or nearly is one of the words
\* looked for, alone, after "a " or before " version".
PromptWords ==
    {<<>>, <<"j", "a", "z", "z">>, <<"j", "a", "z">>, <<"J", "a", "Z", "z">>,
     <<"R", "O", "C", "K">>, <<"C", "l", "a", "s", "s", "i", "c", "a", "l">>,
     <<"E", "L", "E", "C", "T", "R", "O", "N", "I", "C">>,
     <<"v", "i", "n", "t", "a", "g", "e">>, <<"V", "i", "n", "t", "a", "g", "e">>,
     <<"p", "i", "a", "n", "o">>}
PromptPrefixes == {<<>>, <<"a", " ">>}
PromptSuffixes == {<<>>, <<" ", "v", "e", "r", "s", "i", "o", "n">>}
Prompts ==
    {Nothing} \cup {Some(a \o w \o b) :
                        a \in PromptPrefixes, w \in PromptWords, b \in PromptSuffixes}

InputPaths == {<<>>, <<"in.wav">>}
OutputPaths == {<<>>, <<"out.wav">>}

\* A body arrives whose fields forward translation reads are drawn from the
\* sets above.
InitForward ==
    /\ InitSupervisor
    /\ auto_start
    /\ \E m \in AceStepMode, i \in RawIntensities, pm, pt, pk \in BOOLEAN,
          et \in Targets, al, rl \in Layers, s \in Seeds, x \in ExtraParams :
         call = NewCall("body", NuevaRequest(m, <<"in.wav">>, <<"out.wav">>,
                                             Nothing, i, pm, pt, pk,
                                             et, al, rl, s, x))

\* The NuevaRequest is constructed from the body, or the body is rejected.
Construct ==
    /\ call.stage = "body"
    /\ call' = [call EXCEPT !.stage = IF RequestAccepted(call.request)
                                      THEN "request" ELSE "rejected"]
    /\ UNCHANGED mvars

\* nueva_to_acestep() is applied to the request.
Forward ==
    /\ call.stage = "request"
    /\ call' = [call EXCEPT
                  !.acestep_request = Some(nueva_to_acestep(call.request)),
                  !.stage = "task"]
    /\ UNCHANGED mvars

NextForward == Construct \/ Forward

SpecForward == InitForward /\ [][NextForward]_vars

\* POST /process has been called with a constructed request and has read
\* start_time; the fields backward translation reads are drawn.
InitProcess ==
    /\ InitSupervisor
    /\ auto_start
    /\ \E m \in AceStepMode, p \in Prompts,
          i \in {Frac(0, 1), Frac(1, 2), Frac(1, 1)},
          ip \in InputPaths, outp \in OutputPaths :
         call = NewCall("ensure", NuevaRequest(m, ip, outp, p, i,
                                               TRUE, TRUE, TRUE,
                                               Nothing, Nothing, Nothing,
                                               Nothing, EmptyDict))

NextProcess == ProcessEnsured \/ ProcessFileChecked \/ ProcessEngineAnswered

SpecProcess == InitProcess /\ [][NextProcess]_vars

----------------------------------------------------------------------------
(* bridge.py: the line protocol.  A str is a sequence of pieces, a JSON     *)
(* object a function from its keys, and an emitted line is represented by  *)
(* the object json.dumps() writes.                                         *)

MaxLines == 2

\* class Action(str, Enum)
Action == {"ping", "process", "list_models", "get_model_info", "abort"}

\* An exception e raised with str(e) = msg.
RaisedWith(e, msg) == [raised |-> e, value |-> Nothing, message |-> msg]

\* data.get(k): the value, or None.
Get(data, k) == IF k \in DOMAIN data THEN Some(data[k]) ELSE Nothing

\* data.get("action", "ping")
ActionOf(data) == IF "action" \in DOMAIN data THEN data["action"] ELSE "ping"

\* BridgeRequest.from_json(data): data.get of a value that is no object
\* raises AttributeError, Action() of another value raises ValueError.
from_json(doc) ==
    IF doc.type # "object"
    THEN RaisedWith("AttributeError",
                    <<"'list' object has no attribute 'get'">>)
    ELSE IF ActionOf(doc.obj) \notin Action
    THEN RaisedWith("ValueError",
                    <<"'", ActionOf(doc.obj), "' is not a valid Action">>)
    ELSE Ok([action |-> ActionOf(doc.obj),
             request_id |-> Get(doc.obj, "request_id"),
             prompt |-> Get(doc.obj, "prompt"),
             input_path |-> Get(doc.obj, "input_path"),
             output_path |-> Get(doc.obj, "output_path"),
             model |-> Get(doc.obj, "model")])

\* The dataclass BridgeResponse.
BridgeResponse(s, rid, tool, why, msg, changes, err, code) ==
    [success |-> s, request_id |-> rid, tool_used |-> tool, reasoning |-> why,
     message |-> msg, neural_changes |-> changes, error |-> err,
     error_code |-> code]

\* One entry of to_json(): the key is set when the field is truthy.
Entry(k, o) == IF Truthy(o) THEN k :> o[1] ELSE EmptyDict

\* BridgeResponse.to_json()
to_json(r) ==
    ("success" :> r.success) @@ Entry("request_id", r.request_id)
      @@ Entry("tool_used", r.tool_used) @@ Entry("reasoning", r.reasoning)
      @@ Entry("message", r.message)
      @@ Entry("neural_changes", r.neural_changes)
      @@ Entry("error", r.error) @@ Entry("error_code", r.error_code)

\* A failure response of the bridge.
Failure(rid, err, code) ==
    BridgeResponse(FALSE, rid, Nothing, Nothing, Nothing, Nothing,
                   Some(err), Some(<<code>>))

\* A success response that carries a message only.
Message(rid, msg) ==
    BridgeResponse(TRUE, rid, Nothing, Nothing, Some(msg), Nothing, Nothing,
                   Nothing)

\* What a handler gives back: the response and whether model.process() was
\* called.
Handled(r, invoked) == [response |-> r, invoked |-> invoked]

\* "not model_id or model_id not in self.models": a model that is a JSON
\* array is falsy when empty and unhashable otherwise.
ModelLookup(models, m) ==
    IF m = Nothing \/ m[1].v = <<>> THEN Ok(FALSE)
    ELSE IF m[1].json = "array"
    THEN RaisedWith("TypeError", <<"unhashable type: 'list'">>)
    ELSE Ok(m[1].v \in models)

\* f"{model_id}"
FormatModel(m) ==
    IF m = Nothing THEN <<"None">>
    ELSE IF m[1].json = "array" THEN <<"[]">> ELSE m[1].v

\* model.process() returns v, ms milliseconds after _handle_process read
\* start_time.
Returned(v, ms) == [raised |-> "", value |-> v, ms |-> ms]

\* What AceStepProcessor.process() can do: return its result, or raise a
\* RuntimeError whose text is that of the fault (the text of the error the
\* API server reported, which may be empty).
ModelOutcomes ==
    {Returned(("message" :> <<"ACE-Step transform (via API): 'transform the audio'">>)
                @@ ("reasoning" :> <<"Processed via ACE-Step API server">>)
                @@ ("intentional_artifacts" :> <<>>), ms) : ms \in 0..MaxDelay}
    \cup {RaisedWith("RuntimeError", <<"Cannot connect to ACE-Step API">>),
          RaisedWith("RuntimeError", <<>>)}

\* _handle_ping()
handle_ping(req) == Handled(Message(req.request_id, <<"pong">>), FALSE)

\* _handle_list_models()
handle_list_models(models, req) ==
    Handled(Message(req.request_id,
                    IF models = {} THEN <<"[]">> ELSE <<"[\"ace-step\"]">>),
            FALSE)

\* _handle_get_model_info()
handle_get_model_info(models, req, known) ==
    IF ~known
    THEN Handled(Failure(req.request_id,
                         <<"Model not found: ">> \o FormatModel(req.model),
                         "MODEL_NOT_FOUND"), FALSE)
    ELSE Handled(Message(req.request_id, <<"{\"id\": \"ace-step\"}">>), FALSE)

handle_process_AnyOutputPath(models, req, known, outcome) ==
    IF ~known
    THEN Handled(Failure(req.request_id,
                         <<"Model not found: ">> \o FormatModel(req.model),
                         "MODEL_NOT_FOUND"), FALSE)
    ELSE IF ~Truthy(req.input_path)
    THEN Handled(Failure(req.request_id, <<"input_path is required">>,
                         "MISSING_PARAMETER"), FALSE)
    ELSE IF outcome.raised # ""
    THEN Handled(Failure(req.request_id, outcome.message, "PROCESSING_ERROR"),
                 TRUE)
    ELSE Handled(BridgeResponse(TRUE, req.request_id, Some(<<"neural">>),
                   Some(outcome.value["reasoning"]),
                   Some(outcome.value["message"]),
                   Some(("model" :> req.model[1].v)
                        @@ ("output_path" :> Format(req.output_path))
                        @@ ("processing_time_ms" :> outcome.ms)
                        @@ ("intentional_artifacts" :>
                              outcome.value["intentional_artifacts"])),
                   Nothing, Nothing), TRUE)

handle_process_OutputPathFirst(models, req, known, outcome) ==
    IF ~Truthy(req.output_path)
    THEN Handled(Failure(req.request_id, <<"output_path is required">>,
                         "MISSING_PARAMETER"), FALSE)
    ELSE handle_process_AnyOutputPath(models, req, known, outcome)

\* _handle_process(): outcome is what model.process() does when it is
\* called.
handle_process(models, req, known, outcome) ==
    IF ~known
    THEN Handled(Failure(req.request_id,
                         <<"Model not found: ">> \o FormatModel(req.model),
                         "MODEL_NOT_FOUND"), FALSE)
    ELSE IF ~Truthy(req.input_path)
    THEN Handled(Failure(req.request_id, <<"input_path is required">>,
                         "MISSING_PARAMETER"), FALSE)
    ELSE IF ~Truthy(req.output_path)
    THEN Handled(Failure(req.request_id, <<"output_path is required">>,
                         "MISSING_PARAMETER"), FALSE)
    ELSE IF outcome.raised # ""
    THEN Handled(Failure(req.request_id, outcome.message, "PROCESSING_ERROR"),
                 TRUE)
    ELSE Handled(BridgeResponse(TRUE, req.request_id, Some(<<"neural">>),
                   Some(outcome.value["reasoning"]),
                   Some(outcome.value["message"]),
                   Some(("model" :> req.model[1].v)
                        @@ ("output_path" :> req.output_path[1])
                        @@ ("processing_time_ms" :> outcome.ms)
                        @@ ("intentional_artifacts" :>
                              outcome.value["intentional_artifacts"])),
                   Nothing, Nothing), TRUE)

\* _handle_abort()
handle_abort(req) ==
    Handled(Message(req.request_id, <<"Abort requested">>), FALSE)

\* AIBridge.handle_request(): the handler of the action, and the except
\* clause for what a handler raises outside its own try.
handle_request(models, req, outcome) ==
    LET look == ModelLookup(models, req.model) IN
    CASE req.action = "ping" -> handle_ping(req)
      [] req.action = "list_models" -> handle_list_models(models, req)
      [] req.action \in {"get_model_info", "process"} /\ look.raised # "" ->
           Handled(Failure(req.request_id, look.message, "PROCESSING_ERROR"),
                   FALSE)
      [] req.action = "get_model_info" /\ look.raised = "" ->
           handle_get_model_info(models, req, look.value)
      [] req.action = "process" /\ look.raised = "" ->
           handle_process(models, req, look.value, outcome)
      [] req.action = "abort" -> handle_abort(req)
      [] OTHER -> Handled(Failure(req.request_id,
                                  <<"Unknown action: ", req.action>>,
                                  "UNKNOWN_ACTION"), FALSE)

Strip_AsIs(line) ==
    IF line.ws /\ line.body = Nothing
    THEN Some([valid |-> FALSE, type |-> "none", obj |-> EmptyDict])
    ELSE line.body

\* line.strip(): the text of the line without the whitespace around it.
Strip(line) == line.body

\* json.loads(line)
json_loads(text) ==
    IF ~text[1].valid
    THEN RaisedWith("JSONDecodeError",
                    <<"Expecting value: line 1 column 1 (char 0)">>)
    ELSE Ok(text[1])

\* The body of the loop of main() for a line that is not blank: what is
\* printed, and whether model.process() was called.
Serve(models, text, outcome) ==
    LET data == json_loads(text)
        request == from_json(data.value)
        h == handle_request(models, request.value, outcome)
    IN IF data.raised # ""
       THEN Handled(to_json(BridgeResponse(FALSE, Nothing, Nothing, Nothing,
                      Nothing, Nothing,
                      Some(<<"Invalid JSON: ">> \o data.message),
                      Some(<<"INVALID_JSON">>))), FALSE)
       ELSE IF request.raised # ""
       THEN Handled(to_json(BridgeResponse(FALSE, Nothing, Nothing, Nothing,
                      Nothing, Nothing, Some(request.message),
                      Some(<<"INTERNAL_ERROR">>))), FALSE)
       ELSE Handled(to_json(h.response), h.invoked)

\* The state of main(): the models AIBridge() loaded, the lines read, the
\* last of them, the lines printed and the calls of model.process().
NewBridge(models) ==
    [stage |-> "serve", models |-> models, read |-> 0,
     line |-> [ws |-> FALSE, body |-> Nothing], out |-> <<>>, calls |-> 0]

\* A key of a request line that is there or not.
Opt(k, o) == IF o = Nothing THEN EmptyDict ELSE k :> o[1]

RequestIds == {Nothing, Some(<<"r1">>), Some(<<>>)}

ModelValues ==
    {Nothing, Some([json |-> "string", v |-> <<"ace-step">>]),
     Some([json |-> "string", v |-> <<"other">>]),
     Some([json |-> "array", v |-> <<"x">>])}

\* The JSON objects of the request lines: the keys the action reads, each
\* absent or with one of a few values ("bogus" is no action).
Objects ==
    {Opt("action", a) @@ Opt("request_id", rid) :
       a \in {Nothing, Some("ping"), Some("list_models"), Some("abort"),
              Some("bogus")},
       rid \in RequestIds}
    \cup {("action" :> "get_model_info") @@ Opt("request_id", rid)
            @@ Opt("model", m) : rid \in RequestIds, m \in ModelValues}
    \cup {("action" :> "process") @@ Opt("request_id", rid) @@ Opt("model", m)
            @@ Opt("input_path", ip) @@ Opt("output_path", outp) :
          rid \in {Nothing, Some(<<"r1">>)}, m \in ModelValues,
          ip \in {Nothing, Some(<<"in.wav">>)},
          outp \in {Nothing, Some(<<>>), Some(<<"out.wav">>)}}

\* What a line holds between its whitespace: a JSON object, another JSON
\* value, or text that is no JSON.
Documents ==
    {[valid |-> TRUE, type |-> "object", obj |-> o] : o \in Objects}
    \cup {[valid |-> TRUE, type |-> "array", obj |-> EmptyDict],
          [valid |-> FALSE, type |-> "none", obj |-> EmptyDict]}

\* The lines of stdin: blank ones (empty or whitespace only), and documents
\* with or without whitespace around them.
Lines ==
    {[ws |-> w, body |-> Nothing] : w \in BOOLEAN}
    \cup {[ws |-> FALSE, body |-> Some(d)] : d \in Documents}
    \cup {[ws |-> TRUE, body |-> Some([valid |-> TRUE, type |-> "object",
                                       obj |-> "request_id" :> <<"r1">>])]}

\* bridge = AIBridge(): ace-step is loaded unless its import fails.
InitBridge ==
    /\ InitSupervisor
    /\ auto_start
    /\ \E models \in {{}, {<<"ace-step">>}} : call = NewBridge(models)

\* One turn of "for line in sys.stdin": the line is stripped, skipped when
\* nothing is left, and answered otherwise.
ServeLine ==
    /\ call.stage = "serve"
    /\ call.read < MaxLines
    /\ \E line \in Lines, outcome \in ModelOutcomes :
         LET text == Strip(line)
             s == Serve(call.models, text, outcome)
         IN IF text = Nothing
            THEN call' = [call EXCEPT !.read = @ + 1, !.line = line]
            ELSE call' = [call EXCEPT !.read = @ + 1, !.line = line,
                                      !.out = Append(@, s.response),
                                      !.calls = @ + (IF s.invoked THEN 1 ELSE 0)]
    /\ UNCHANGED mvars

\* stdin is closed: the loop, and main(), end.
EndOfInput ==
    /\ call.stage = "serve"
    /\ call' = [call EXCEPT !.stage = "eof"]
    /\ UNCHANGED mvars

NextBridge == ServeLine \/ EndOfInput

SpecBridge == InitBridge /\ [][NextBridge]_vars

----------------------------------------------------------------------------
(* server.py: process_uploaded_audio(), followed for one upload.           *)

\* input_path and output_path of the upload, under NUEVA_TEMP_DIR.
StagedInput == <<"/tmp/nueva/", "input_", "0", "_", "a.wav">>
StagedOutput == <<"/tmp/nueva/", "output_", "0", "_", "a.wav">>

\* The state of an upload of the form fields in r: where the handler is,
\* whether a file is at input_path, the calls of remove(input_path), whether
\* the last of them raised, and what the handler ended in, next to the state
\* of its call of process_audio().
NewUpload(r) ==
    [upload |-> "staging", staged |-> FALSE, removes |-> 0,
     remove_raised |-> FALSE, result |-> "none"]
      @@ NewCall("idle", r)

Cleanup_AfterResponseOnly(c, result, removed) ==
    IF result \in {"file", "json"}
    THEN [c EXCEPT !.upload = "finished", !.result = result,
                   !.removes = @ + 1, !.staged = @ /\ ~removed,
                   !.remove_raised = ~c.staged \/ ~removed]
    ELSE [c EXCEPT !.upload = "finished", !.result = result]

\* The finally clause: remove(input_path) is called, and what it raises (no
\* file there, or a removal the system refuses) is passed over; then the
\* handler ends in result.
Cleanup(c, result, removed) ==
    [c EXCEPT !.upload = "finished", !.result = result,
              !.removes = @ + 1, !.staged = @ /\ ~removed,
              !.remove_raised = ~c.staged \/ ~removed]

\* What the handler returns for what process_audio() gave back.
UploadResult(c, outexists) ==
    CASE c.stage = "http503" -> "http503"
      [] c.stage = "http400" -> "http400"
      [] c.stage = "done" ->
           IF c.response[1].success /\ Truthy(c.response[1].output_path)
              /\ outexists
           THEN "file" ELSE "json"

\* An upload arrives: the form fields are drawn, mode and intensity among
\* them values that NuevaRequest does not accept.
InitUpload ==
    /\ InitSupervisor
    /\ auto_start
    /\ \E m \in AceStepMode \cup {"bogus"}, p \in {Nothing, Some(<<"j", "a", "z", "z">>)},
          i \in {Frac(1, 2), Frac(3, 2)} :
         call = NewUpload(NuevaRequest(m, StagedInput, StagedOutput, p, i,
                                       TRUE, TRUE, TRUE,
                                       Nothing, Nothing, Nothing,
                                       Nothing, EmptyDict))

\* The handler up to its call of process_audio(): the directory is made (or
\* makedirs raises, before the try), the upload is written to input_path (the
\* file cannot be opened, or is opened and cannot be written), and the
\* request is constructed (or refused); what is raised inside the try goes
\* through the finally clause.
UploadStaged ==
    /\ call.upload = "staging"
    /\ \E dirs \in BOOLEAN, wrote \in {"ok", "open_fails", "write_fails"},
          removed \in BOOLEAN :
         call' =
           IF ~dirs
           THEN [call EXCEPT !.upload = "finished", !.result = "raised"]
           ELSE IF wrote # "ok"
           THEN Cleanup([call EXCEPT !.staged = (wrote = "write_fails")],
                        "raised", removed)
           ELSE IF ~RequestAccepted(call.request)
           THEN Cleanup([call EXCEPT !.staged = TRUE], "raised", removed)
           ELSE [call EXCEPT !.staged = TRUE, !.upload = "processing",
                             !.stage = "ensure"]
    /\ UNCHANGED mvars

\* process_audio() has given its response or raised its 503 or 400: the
\* handler returns the file or the JSON, or lets the HTTPException pass, and
\* the finally clause runs.
UploadFinished ==
    /\ call.upload = "processing"
    /\ call.stage \in {"done", "http503", "http400"}
    /\ \E outexists, removed \in BOOLEAN :
         call' = Cleanup(call, UploadResult(call, outexists), removed)
    /\ UNCHANGED mvars

NextUpload ==
    \/ UploadStaged
    \/ ProcessEnsured
    \/ ProcessFileChecked
    \/ ProcessEngineAnswered
    \/ UploadFinished

SpecUpload == InitUpload /\ [][NextUpload]_vars

----------------------------------------------------------------------------
(* acestep_client.py: the payload AceStepClient.process() posts, followed   *)
(* from the request body on.                                                *)

\* bool(o) of an Optional[float]: neither None nor zero.
FloatTruthy(o) == o # Nothing /\ o[1].num # 0

\* payload = {"task": ..., "prompt": ..., "guidance_scale": ...,
\*            "num_inference_steps": ..., **request.kwargs}
\* followed by the two optional fields.
Payload(a) ==
    LET fixed == ("task" :> a.task) @@ ("prompt" :> a.prompt)
                   @@ ("guidance_scale" :> a.guidance_scale)
                   @@ ("num_inference_steps" :> a.num_inference_steps)
        spread == a.kwargs @@ fixed
        p1 == IF Truthy(a.audio_path)
              THEN Put(spread, "audio_path", a.audio_path[1]) ELSE spread
    IN IF FloatTruthy(a.audio_duration)
       THEN Put(p1, "audio_duration", a.audio_duration[1]) ELSE p1

\* A request followed up to the payload posted for it.
NewPayload(r) == [payload |-> Nothing] @@ NewCall("body", r)

\* extra_params: empty, a key of its own, or a key the client also writes.
PayloadParams ==
    {EmptyDict,
     "custom" :> 1,
     "task" :> "repaint",
     "guidance_scale" :> Frac(1, 1),
     "prompt" :> <<"other">>,
     "num_inference_steps" :> 10}

\* A body arrives; its mode, intensity, prompt, input path, seed and
\* extra_params are drawn.
InitPayload ==
    /\ InitSupervisor
    /\ auto_start
    /\ \E m \in AceStepMode, i \in RawIntensities, ip \in InputPaths,
          p \in {Nothing, Some(<<"j", "a", "z", "z">>)}, s \in Seeds,
          x \in PayloadParams :
         call = NewPayload(NuevaRequest(m, ip, <<"out.wav">>, p, i,
                                        TRUE, TRUE, TRUE,
                                        Nothing, Nothing, Nothing, s, x))

\* client.process() builds the payload of the translated request and posts it.
SendPayload ==
    /\ call.stage = "task"
    /\ call' = [call EXCEPT !.payload = Some(Payload(call.acestep_request[1])),
                            !.posts = @ + 1,
                            !.stage = "sent"]
    /\ UNCHANGED mvars

NextPayload == Construct \/ Forward \/ SendPayload

SpecPayload == InitPayload /\ [][NextPayload]_vars

----------------------------------------------------------------------------
(* server.py: process_uploaded_audio(), several uploads in flight.  Each   *)
(* action is what one handler runs between two awaits.                     *)

NUploads == 2    \* the uploads in flight together
MaxClock == 1    \* int(time.time()) runs over 0..MaxClock

Uploads == 1..NUploads

\* file.filename: the name the client gives.
Filenames == {<<"a.wav">>, <<"b.wav">>}

\* os.path.join(temp_dir, f"input_{int(time.time())}_{file.filename}")
InputPath(seconds, filename) ==
    <<"/tmp/nueva/", "input_", ToString(seconds), "_">> \o filename

\* os.path.join(temp_dir, f"output_{int(time.time())}_{file.filename}")
OutputPath_Upload(seconds, filename) ==
    <<"/tmp/nueva/", "output_", ToString(seconds), "_">> \o filename

\* The directory without the entry at path.
Unlink(files, path) == [p \in DOMAIN files \ {path} |-> files[p]]

\* The handlers' positions and locals, the clock, and the files under
\* NUEVA_TEMP_DIR with the upload whose content each one holds.
NewUploads ==
    [stage |-> "uploads", clock |-> 0, files |-> EmptyDict,
     up |-> [u \in Uploads |->
               [at |-> "none", filename |-> <<>>, input_path |-> <<>>,
                output_path |-> <<>>, result |-> "none"]]]

InitUploads ==
    /\ InitSupervisor
    /\ auto_start
    /\ call = NewUploads

\* A second passes.
Tick ==
    /\ call.stage = "uploads"
    /\ call.clock < MaxClock
    /\ call' = [call EXCEPT !.clock = @ + 1]
    /\ UNCHANGED mvars

\* The handler of upload u up to aiofiles.open(): the two paths are made of
\* the time and the client's filename.
UploadArrives(u) ==
    /\ call.stage = "uploads"
    /\ call.up[u].at = "none"
    /\ \E name \in Filenames :
         call' = [call EXCEPT
                    !.up[u] = [@ EXCEPT
                                 !.at = "arrived",
                                 !.filename = name,
                                 !.input_path = InputPath(call.clock, name),
                                 !.output_path =
                                     OutputPath_Upload(call.clock, name)]]
    /\ UNCHANGED mvars

\* open(input_path, "wb"), read and write: the file at input_path holds the
\* content of upload u, whatever was there; then process_audio() is entered.
UploadWritten(u) ==
    /\ call.stage = "uploads"
    /\ call.up[u].at = "arrived"
    /\ call' = [call EXCEPT
                  !.files = Put(@, call.up[u].input_path, u),
                  !.up[u] = [@ EXCEPT !.at = "written"]]
    /\ UNCHANGED mvars

\* process_audio(): ensure_running() returns v; 503 when it is false, 400
\* when no file is at input_path, and the POST to the engine otherwise.
UploadEnsured(u) ==
    /\ call.stage = "uploads"
    /\ call.up[u].at = "written"
    /\ \E v \in BOOLEAN :
         LET e == ProcessAfterEnsure(v, FALSE)
             b == IF e = "503" THEN e
                  ELSE ProcessAfterExists(
                         call.up[u].input_path \in DOMAIN call.files)
         IN call' = [call EXCEPT
                       !.up[u] = IF b \in {"503", "400"}
                                 THEN [@ EXCEPT !.at = "cleanup",
                                                !.result = "http" \o b]
                                 ELSE [@ EXCEPT !.at = "engine"]]
    /\ UNCHANGED mvars

\* The engine has answered and process_audio() has returned its response:
\* the handler has its file or JSON response and enters the finally clause.
UploadAnswered(u) ==
    /\ call.stage = "uploads"
    /\ call.up[u].at = "engine"
    /\ \E r \in {"file", "json"} :
         call' = [call EXCEPT !.up[u] = [@ EXCEPT !.at = "cleanup",
                                                  !.result = r]]
    /\ UNCHANGED mvars

\* The finally clause: remove(input_path) removes what is at the path; when
\* nothing is there it raises and the exception is passed over.
UploadRemoved(u) ==
    /\ call.stage = "uploads"
    /\ call.up[u].at = "cleanup"
    /\ call' = [call EXCEPT
                  !.files = Unlink(@, call.up[u].input_path),
                  !.up[u] = [@ EXCEPT !.at = "finished"]]
    /\ UNCHANGED mvars

NextUploads ==
    \/ Tick
    \/ \E u \in Uploads :
         \/ UploadArrives(u)
         \/ UploadWritten(u)
         \/ UploadEnsured(u)
         \/ UploadAnswered(u)
         \/ UploadRemoved(u)

SpecUploads == InitUploads /\ [][NextUploads]_vars

----------------------------------------------------------------------------
(* Properties.                                                             *)

\* The tasks whose health_check() is in flight.
ProbePcs == {"hc_probe", "er_probe", "wfh_probe"}

\* Task t's probe answers in this step.
ProbeAnswers(t) == pc[t] \in ProbePcs /\ pc'[t] # pc[t]

\* C1: concurrent ensure_running() callers, each calling once, with auto-start
\* enabled and the engine down (no probe has answered 200, so no call has
\* returned true), launch at most one subprocess between them.
C1_OneLaunch ==
    (auto_start /\ \A t \in Tasks : ret[t] # "true")
      => Cardinality({t \in Tasks : "launched" \in did[t]}) <= 1

\* C2: when the start() that launched the subprocess returns false, the
\* supervisor is Stopped: not starting, not healthy, and no handle is held.
C2_FailedStartIsStopped ==
    [][\A t \in Tasks :
         (owner[t] /\ ret[t] = "none" /\ ret'[t] = "false")
           => (~starting' /\ ~healthy' /\ process' = None)]_vars

\* C3: whenever the dispatcher calls the Engine Client's process(), _healthy
\* is true.
C3_EngineCalledOnlyWhenHealthy ==
    [][\A t \in Tasks :
         (pc[t] # "p_engine" /\ pc'[t] = "p_engine") => healthy']_vars

\* C4: a /process request answered 400 (input file not found) has sent no
\* health probe, launched nothing and called no engine.
C4_RejectedWithoutSupervisor ==
    \A t \in Tasks : status[t] = "400" => did[t] = {}

\* C5: a /process request whose ensure_running() returned false is answered
\* 503 at once and never calls the engine; with auto-start disabled, a failed
\* fresh probe is such a request.
C5_Unavailable ==
    \A t \in Tasks :
      /\ (op[t] = "process" /\ ret[t] = "false")
           => (pc[t] = "done" /\ status[t] = "503" /\ "engine" \notin did[t])
      /\ (op[t] = "process" /\ ~auto_start)
           => /\ pc[t] \notin {"wfh_probe", "wfh_sleep"}
              /\ did[t] \subseteq {"probe", "engine"}
              /\ "engine" \in did[t] => ret[t] = "true"

C5_Witness ==
    \E t \in Tasks :
      op[t] = "process" /\ ~auto_start /\ ~healthy /\ ret[t] = "false" /\ status[t] = "503"

\* C6: when the fresh probe of ensure_running() answers 200, ensure_running()
\* returns true and the step neither launches nor stops a subprocess: the
\* handle, _starting, the subprocesses and the stop log are as before.
C6_ProbeOkNoSideEffects ==
    [][\A t \in Tasks :
         (pc[t] = "er_probe" /\ pc'[t] # "er_probe" /\ lastProbe'.is200)
           => /\ ret'[t] = "true"
              /\ process' = process
              /\ starting' = starting
              /\ orphans' = orphans
              /\ stopLog' = stopLog
              /\ did'[t] \subseteq {"probe", "engine"}]_vars

\* A request whose fresh probe answered 200 while another request's start was
\* in flight and a subprocess was owned: the 200 is the latest answer, so it
\* came after the failed probe that made the other request start.
C6_Witness ==
    \E t, u \in Tasks :
      /\ t # u
      /\ op[t] = "process" /\ ret[t] = "true" /\ "wait" \notin did[t]
      /\ op[u] = "process" /\ owner[u]
      /\ starting /\ process = "running"
      /\ lastProbe.called /\ lastProbe.is200

\* C7: after stop() the supervisor is Stopped, whatever the state before: no
\* handle, not healthy, not starting.
C7_StopReachesStopped ==
    [][\A t \in Tasks :
         (pc[t] = "idle" /\ op'[t] = "stop")
           => (process' = None /\ ~healthy' /\ ~starting')]_vars

\* kill() is only ever called after terminate() and an expired wait, and an
\* expired wait is always followed by kill().
KillOrder(log) ==
    /\ log # <<>> => log[1] = "terminate"
    /\ \A i \in 1..Len(log) :
         /\ log[i] = "kill" => (i = 3 /\ log[2] = "wait_expired")
         /\ log[i] = "wait_expired" => (i = 2 /\ Len(log) >= 3 /\ log[3] = "kill")

\* C8: stop() on an owned subprocess makes its calls in the order terminate,
\* bounded wait, kill, and on every path returns with the handle cleared and
\* _healthy false (restart() may then set a new handle).
C8_StopSequence ==
    [][/\ KillOrder(stopLog')
       /\ \A t \in Tasks :
            (pc[t] = "idle" /\ op'[t] \in {"stop", "restart"} /\ process # None)
              => /\ stopLog' # <<>>
                 /\ ~healthy'
                 /\ op'[t] = "stop" => process' = None
                 /\ op'[t] = "restart" => (process' = None \/ "launched" \in did'[t])]_vars

\* stop() ran the whole sequence on a subprocess that did not exit in time.
C8_Witness ==
    /\ stopLog = <<"terminate", "wait_expired", "kill">>
    /\ process = None
    /\ ~healthy
    /\ \E t \in Tasks : op[t] = "stop" /\ pc[t] = "done"

\* C9: every restart() that returned has called Popen after its stop(), and
\* POST /restart-acestep answers 500 exactly when restart() returned false.
C9_RestartLaunches ==
    \A t \in Tasks :
      (op[t] = "restart" /\ pc[t] = "done")
        => /\ "popen" \in did[t]
           /\ (status[t] = "500") <=> (ret[t] = "false")

\* C10: health_check() never raises, returns true exactly for status 200, and
\* leaves its return value in _healthy.
C10_HealthCheckTotal ==
    [][\A t \in Tasks :
         ProbeAnswers(t)
           => /\ lastProbe'.called
              /\ ~lastProbe'.raised
              /\ lastProbe'.ret <=> lastProbe'.is200
              /\ healthy' = lastProbe'.ret]_vars

\* A probe that did not answer 200 has been reported as false.
C10_Witness ==
    lastProbe.called /\ ~lastProbe.is200 /\ ~lastProbe.ret /\ ~healthy

----------------------------------------------------------------------------
(* Properties of the Engine Client, the translations and the dispatcher.   *)

\* The POST ended in anything but a 200 response whose body parsed.
TransportFailure(h) ==
    h.kind # "response" \/ h.status # 200 \/ h.json # "object" \/ ~h.typed

\* C11: process() makes exactly one POST and never raises; every transport
\* failure (no connection, timeout, non-200 status, malformed body) gives a
\* result with success=false and a non-empty error, and success=true is given
\* only for a 200 response whose body parsed.
C11_ClientNeverRaises ==
    /\ call.stage = "engine" => call.posts = 1
    /\ (call.stage = "done" /\ call.posts > 0) =>
         /\ call.posts = 1
         /\ call.acestep_response # Nothing
         /\ LET a == call.acestep_response[1] IN
            /\ TransportFailure(call.http)
                 => (~a.success /\ a.error # Nothing /\ a.error[1] # <<>>)
            /\ a.success
                 => (call.http.kind = "response" /\ call.http.status = 200
                     /\ call.http.json = "object" /\ call.http.typed)

\* A 200 response whose body is not JSON came back as a failed result.
C11_Witness ==
    /\ call.stage = "done"
    /\ call.http.kind = "response" /\ call.http.status = 200 /\ call.http.json = "invalid"
    /\ call.acestep_response # Nothing
    /\ ~call.acestep_response[1].success
    /\ call.posts = 1

\* C12: in every response of the bridge, success holds exactly when
\* error_code and error_message are both absent, fails exactly when both are
\* present, and output_path is present exactly when success holds.
C12_SuccessExcludesError ==
    call.response # Nothing =>
      LET r == call.response[1] IN
      /\ r.success <=> (r.error_code = Nothing /\ r.error_message = Nothing)
      /\ ~r.success <=> (r.error_code # Nothing /\ r.error_message # Nothing)
      /\ (r.output_path # Nothing) <=> r.success

\* The engine succeeded without naming an audio_path, and the response
\* carries an output_path and no error.
C12_Witness ==
    /\ call.stage = "done"
    /\ call.acestep_response # Nothing
    /\ call.acestep_response[1].success
    /\ call.acestep_response[1].audio_path = Nothing
    /\ call.response[1].success
    /\ call.response[1].output_path # Nothing
    /\ call.response[1].error_code = Nothing

\* C13: an engine result with success=false is answered with success=false,
\* error_code "ENGINE_ERROR" and a description that contains the engine's
\* error text.
C13_EngineErrorCode ==
    (call.stage = "done" /\ call.acestep_response # Nothing /\ ~call.acestep_response[1].success) =>
      LET r == call.response[1] IN
      /\ ~r.success
      /\ r.error_code = Some("ENGINE_ERROR")
      /\ Contains(call.acestep_response[1].error[1], r.description)

\* C14: processing_time_ms is the time the Engine Client call took: the time
\* spent in ensure_running() and in the file check is not part of it.
C14_TimeAroundEngineCallOnly ==
    (call.stage = "done" /\ call.acestep_response # Nothing) =>
      call.response[1].processing_time_ms = call.now - call.call_start

\* C15: for an accepted intensity i, guidance_scale = 3 + 12 i, which lies in
\* [3, 15], is 3, 9 and 15 at 0, 1/2 and 1, and is no smaller than at any
\* smaller accepted intensity; a body is rejected exactly when its intensity
\* lies outside [0, 1].
C15_GuidanceScale ==
    LET i == call.request.intensity
        inRange == Le(Frac(0, 1), i) /\ Le(i, Frac(1, 1))
    IN /\ call.stage = "rejected" => ~inRange
       /\ call.stage \in {"request", "task"} => inRange
       /\ call.stage = "task" =>
            LET g == call.acestep_request[1].guidance_scale IN
            /\ g.num * i.den = (3 * i.den + 12 * i.num) * g.den
            /\ Le(Frac(3, 1), g) /\ Le(g, Frac(15, 1))
            /\ Eq(i, Frac(0, 1)) => Eq(g, Frac(3, 1))
            /\ Eq(i, Frac(1, 2)) => Eq(g, Frac(9, 1))
            /\ Eq(i, Frac(1, 1)) => Eq(g, Frac(15, 1))
            /\ \A j \in RawIntensities :
                 (Le(Frac(0, 1), j) /\ Le(j, i)) => Le(GuidanceScale(j), g)

\* Intensity 1/2 was translated to guidance_scale 9.
C15_Witness ==
    /\ call.stage = "task"
    /\ Eq(call.request.intensity, Frac(1, 2))
    /\ Eq(call.acestep_request[1].guidance_scale, Frac(9, 1))

\* The keys of the kwargs other than those in `except`, as the modes set them.
ModeKeysAsClaimed(r, K, except) ==
    /\ \A k \in {"preserve_melody", "preserve_tempo", "preserve_key"} \ except :
         k \in K <=> r.mode = "cover"
    /\ "target" \notin except =>
         ("target" \in K <=> (r.mode = "extract" /\ Truthy(r.extract_target)))
    /\ "add_instruments" \notin except =>
         ("add_instruments" \in K <=> (r.mode = "layer" /\ Truthy(r.add_layers)))
    /\ "remove_instruments" \notin except =>
         ("remove_instruments" \in K <=> (r.mode = "layer" /\ Truthy(r.remove_layers)))

\* C16: the preserve_* keys are in the task's kwargs iff the mode is cover,
\* target iff the mode is extract and a target is set, add_instruments and
\* remove_instruments iff the mode is layer and the list is not empty.
C16_ModeKwargsIffMode ==
    call.stage = "task" =>
      ModeKeysAsClaimed(call.request, DOMAIN call.acestep_request[1].kwargs, {})

\* C16, amended: the same for every key that extra_params does not carry; a
\* key carried by extra_params is in the kwargs whatever the mode.
C16_ModeKwargsUnlessExtra ==
    call.stage = "task" =>
      LET r == call.request
          K == DOMAIN call.acestep_request[1].kwargs
      IN /\ ModeKeysAsClaimed(r, K, DOMAIN r.extra_params)
         /\ DOMAIN r.extra_params \subseteq K

\* A layer request with instruments to add and an empty list to remove got
\* add_instruments and not remove_instruments.
C16_Witness ==
    /\ call.stage = "task"
    /\ call.request.mode = "layer"
    /\ call.request.add_layers = Some(<<"piano">>)
    /\ call.request.remove_layers = Some(<<>>)
    /\ call.request.extract_target # Nothing
    /\ call.request.extra_params = EmptyDict
    /\ call.request.seed = Nothing
    /\ DOMAIN call.acestep_request[1].kwargs = {"add_instruments"}

\* The value forward translation computes for key k from the request fields.
RequestValue(r, k) ==
    CASE k = "seed" -> r.seed[1]
      [] k = "target" -> r.extract_target[1]
      [] k = "add_instruments" -> r.add_layers[1]
      [] k = "remove_instruments" -> r.remove_layers[1]
      [] k = "preserve_melody" -> r.preserve_melody
      [] k = "preserve_tempo" -> r.preserve_tempo
      [] k = "preserve_key" -> r.preserve_key

\* C17: every key of extra_params is in the kwargs with the value extra_params
\* gives it, and every other key of the kwargs has the value computed from the
\* request.
C17_ExtraParamsLast ==
    call.stage = "task" =>
      LET r == call.request
          kw == call.acestep_request[1].kwargs
          x == r.extra_params
      IN /\ \A k \in DOMAIN x : k \in DOMAIN kw /\ kw[k] = x[k]
         /\ \A k \in DOMAIN kw \ DOMAIN x : kw[k] = RequestValue(r, k)

\* A cover request with seed 0 and extra_params {seed: 7}: the kwargs hold
\* seed 7 and the request's preserve_melody.
C17_Witness ==
    /\ call.stage = "task"
    /\ call.request.mode = "cover"
    /\ call.request.seed = Some(0)
    /\ call.request.extra_params = ("seed" :> 7)
    /\ call.acestep_request[1].kwargs["seed"] = 7
    /\ call.acestep_request[1].kwargs["preserve_melody"] = call.request.preserve_melody

\* C18: a request's seed is in the kwargs under key seed with the request's
\* value, for every mode and every extra_params; a request without seed gets
\* no seed key from the translation itself.
C18_SeedAlwaysForwarded ==
    call.stage = "task" =>
      LET r == call.request
          kw == call.acestep_request[1].kwargs
      IN /\ r.seed # Nothing => ("seed" \in DOMAIN kw /\ kw["seed"] = r.seed[1])
         /\ (r.seed = Nothing /\ "seed" \in DOMAIN kw) => "seed" \in DOMAIN r.extra_params

\* C18, amended: the request's seed is forwarded for every mode unless
\* extra_params carries a seed key, whose value is then the one forwarded; with
\* no seed in the request and none in extra_params the kwargs have no seed.
C18_SeedForwardedUnlessOverridden ==
    call.stage = "task" =>
      LET r == call.request
          kw == call.acestep_request[1].kwargs
          x == r.extra_params
      IN /\ (r.seed # Nothing /\ "seed" \notin DOMAIN x)
              => ("seed" \in DOMAIN kw /\ kw["seed"] = r.seed[1])
         /\ "seed" \in DOMAIN x => ("seed" \in DOMAIN kw /\ kw["seed"] = x["seed"])
         /\ (r.seed = Nothing /\ "seed" \notin DOMAIN x) => "seed" \notin DOMAIN kw

\* A repaint request with seed 0 and no seed in extra_params got seed 0.
C18_Witness ==
    /\ call.stage = "task"
    /\ call.request.mode = "repaint"
    /\ call.request.seed = Some(0)
    /\ "seed" \notin DOMAIN call.request.extra_params
    /\ call.acestep_request[1].kwargs["seed"] = 0

\* The upper-case form of a lower-case letter.
UpperOf(c) ==
    IF \E i \in 1..Len(Lowercase) : Lowercase[i] = c
    THEN Uppercase[CHOOSE i \in 1..Len(Lowercase) : Lowercase[i] = c]
    ELSE c

\* The prompt contains one of the (lower-case) words, each letter in either
\* case.
Mentions(p, words) ==
    /\ p # Nothing
    /\ \E w \in words :
         \E i \in 0..(Len(p[1]) - Len(w)) :
           \A j \in 1..Len(w) : p[1][i + j] \in {w[j], UpperOf(w[j])}

JazzVersion == <<"j", "a", "z", "z", " ", "v", "e", "r", "s", "i", "o", "n">>

\* C19: on engine success a cover has the artifacts cover_timbre and
\* different_timbre, and genre_transformation iff its prompt contains jazz,
\* rock, classical or electronic in any letter case; a transform has
\* intentional_coloration, and frequency_rolloff iff its prompt contains
\* vintage; cover, "jazz version", 0.5 gives task cover, guidance_scale 9,
\* the three preserve_* kwargs true and the three cover artifacts.
C19_Artifacts ==
    (call.stage = "done" /\ call.response # Nothing /\ call.response[1].success) =>
      LET r == call.request
          t == call.acestep_request[1]
          art == call.response[1].intentional_artifacts
      IN /\ r.mode = "cover" =>
              art = <<"cover_timbre", "different_timbre">>
                    \o (IF Mentions(r.prompt, Genres)
                        THEN <<"genre_transformation">> ELSE <<>>)
         /\ r.mode = "transform" =>
              art = <<"intentional_coloration">>
                    \o (IF Mentions(r.prompt, {Vintage})
                        THEN <<"frequency_rolloff">> ELSE <<>>)
         /\ (r.mode = "cover" /\ r.prompt = Some(JazzVersion)
             /\ Eq(r.intensity, Frac(1, 2))) =>
              /\ t.task = "cover"
              /\ Eq(t.guidance_scale, Frac(9, 1))
              /\ \A k \in {"preserve_melody", "preserve_tempo", "preserve_key"} :
                   k \in DOMAIN t.kwargs /\ t.kwargs[k] = TRUE
              /\ art = <<"cover_timbre", "different_timbre", "genre_transformation">>

\* A cover whose prompt names a genre in mixed case got the three artifacts.
C19_Witness ==
    /\ call.stage = "done"
    /\ call.request.mode = "cover"
    /\ call.request.prompt # Nothing
    /\ call.request.prompt # Some(StrLower(call.request.prompt[1]))
    /\ call.response[1].success
    /\ call.response[1].intentional_artifacts =
         <<"cover_timbre", "different_timbre", "genre_transformation">>

\* C20: whatever the mode and the prompt (absent and empty included), the
\* response's success is the engine result's success, and no exception of the
\* backward translation turns the request into a processing error.
C20_HeuristicsNeverGate ==
    (call.stage = "done" /\ call.acestep_response # Nothing) =>
      /\ call.response # Nothing
      /\ call.response[1].success = call.acestep_response[1].success
      /\ call.response[1].error_code # Some("PROCESSING_ERROR")

\* The engine succeeded on a cover without prompt, and so did the response.
C20_Witness ==
    /\ call.stage = "done"
    /\ call.request.mode = "cover"
    /\ call.request.prompt = Nothing
    /\ call.acestep_response # Nothing
    /\ call.acestep_response[1].success
    /\ call.response[1].success
    /\ call.response[1].intentional_artifacts = <<"cover_timbre", "different_timbre">>

\* C21: when the engine succeeded and the call is answered with success, the
\* response's output_path is the path the engine returned when it returned
\* one (a non-empty audio_path), and the request's output_path otherwise.
C21_OutputPathDefault ==
    (/\ call.stage = "done"
     /\ call.acestep_response # Nothing
     /\ call.acestep_response[1].success
     /\ call.response[1].success) =>
      LET a == call.acestep_response[1]
          returned == a.audio_path # Nothing /\ Len(a.audio_path[1]) > 0
      IN /\ returned => call.response[1].output_path = a.audio_path
         /\ ~returned =>
              call.response[1].output_path = Some(call.request.output_path)

\* The engine returned a path that differs from the one the request named,
\* and the response carries the engine's.
C21_Witness ==
    /\ call.stage = "done"
    /\ call.acestep_response # Nothing
    /\ call.acestep_response[1].success
    /\ call.acestep_response[1].audio_path = Some(EngineWav)
    /\ call.request.output_path = <<"out.wav">>
    /\ call.response[1].success
    /\ call.response[1].output_path = Some(EngineWav)

ErrorCodes ==
    {<<"UNKNOWN_ACTION">>, <<"MODEL_NOT_FOUND">>, <<"MISSING_PARAMETER">>,
     <<"PROCESSING_ERROR">>, <<"INVALID_JSON">>, <<"INTERNAL_ERROR">>}

\* C22: every line the bridge prints carries success, and every one with
\* success=false carries error and error_code, the code being one of the six
\* of the protocol.
C22_FailureCarriesErrorAndCode ==
    \A k \in 1..Len(call.out) :
      LET j == call.out[k] IN
      /\ "success" \in DOMAIN j
      /\ ~j["success"] =>
           /\ "error" \in DOMAIN j
           /\ "error_code" \in DOMAIN j
           /\ j["error_code"] \in ErrorCodes

\* The last line read holds a JSON object, and the object it holds.
ReadObject(c) ==
    /\ c.read > 0
    /\ c.line.body # Nothing
    /\ c.line.body[1].valid
    /\ c.line.body[1].type = "object"
LineObject(c) == c.line.body[1].obj

\* The last line printed.
Printed(c) == c.out[Len(c.out)]

\* C23: when the request line carries a request_id, the response carries the
\* same request_id, for every action and on success and failure alike.
C23_RequestIdEchoed ==
    (ReadObject(call) /\ "request_id" \in DOMAIN LineObject(call)) =>
      /\ "request_id" \in DOMAIN Printed(call)
      /\ Printed(call)["request_id"] = LineObject(call)["request_id"]

\* The step reads a line that asks for process without an output_path
\* (absent or empty).
ProcessWithoutOutputPath ==
    /\ call'.read = call.read + 1
    /\ ReadObject(call')
    /\ ActionOf(LineObject(call')) = "process"
    /\ ~Truthy(Get(LineObject(call'), "output_path"))

\* The model the line names is one the bridge has loaded.
NamesLoadedModel(c) ==
    /\ "model" \in DOMAIN LineObject(c)
    /\ LineObject(c)["model"].json = "string"
    /\ LineObject(c)["model"].v \in c.models

\* C24 as stated: a process request without output_path is answered with
\* success=false and MISSING_PARAMETER, and model.process() is not called.
C24_MissingOutputPath ==
    [][ProcessWithoutOutputPath =>
         /\ Len(call'.out) = Len(call.out) + 1
         /\ ~Printed(call')["success"]
         /\ Printed(call')["error_code"] = <<"MISSING_PARAMETER">>
         /\ call'.calls = call.calls]_vars

\* C24, amended: a process request that names a loaded model and has no
\* output_path is answered with success=false and MISSING_PARAMETER, and
\* model.process() is not called.
C24_MissingOutputPathOfLoadedModel ==
    [][(ProcessWithoutOutputPath /\ NamesLoadedModel(call')) =>
         /\ Len(call'.out) = Len(call.out) + 1
         /\ ~Printed(call')["success"]
         /\ Printed(call')["error_code"] = <<"MISSING_PARAMETER">>
         /\ call'.calls = call.calls]_vars

\* A process request for ace-step with an input_path and no output_path has
\* been refused, and the model was never called.
C24_Witness ==
    /\ ReadObject(call)
    /\ ActionOf(LineObject(call)) = "process"
    /\ NamesLoadedModel(call)
    /\ "input_path" \in DOMAIN LineObject(call)
    /\ "output_path" \notin DOMAIN LineObject(call)
    /\ Printed(call)["error_code"] = <<"MISSING_PARAMETER">>
    /\ call.calls = 0

\* C29: a request whose action is none of ping, list_models, get_model_info,
\* process and abort is answered with success=false and UNKNOWN_ACTION.
C29_UnknownAction ==
    (ReadObject(call) /\ ActionOf(LineObject(call)) \notin Action) =>
      /\ ~Printed(call)["success"]
      /\ "error_code" \in DOMAIN Printed(call)
      /\ Printed(call)["error_code"] = <<"UNKNOWN_ACTION">>

\* The line holds text outside its whitespace.
NotBlank(line) == line.body # Nothing

\* C30: every turn of the loop leaves what was printed in place and adds
\* exactly one line for a line that is not blank and none for a blank one,
\* before the next line is read; and the loop goes on after every line,
\* whatever its answer: it ends at the end of the input only.
C30_OneResponsePerLine ==
    [][/\ call'.read = call.read + 1 =>
            /\ call'.stage = "serve"
            /\ SubSeq(call'.out, 1, Len(call.out)) = call.out
            /\ Len(call'.out) =
                 Len(call.out) + (IF NotBlank(call'.line) THEN 1 ELSE 0)
       /\ call'.read = call.read => call'.out = call.out
       /\ call'.read \in {call.read, call.read + 1}]_vars

\* After a line that failed, a second line has been read and answered.
C30_Witness ==
    /\ call.read = 2
    /\ Len(call.out) = 2
    /\ ~call.out[1]["success"]
    /\ call.out[1]["error_code"] = <<"INVALID_JSON">>
    /\ call.out[2]["success"]

\* A fault was raised inside the try block of process_audio(): the client
\* could not be made (no POST was sent), the POST failed or its body did not
\* parse, or the result was translated into a failure.
FaultInTry ==
    \/ call.posts = 0
    \/ TransportFailure(call.http)
    \/ call.acestep_response = Nothing
    \/ ~call.acestep_response[1].success

\* C25: a POST /process ends in a response, a 503 or a 400 and in nothing
\* else; a response that does not succeed carries an error_code and an
\* error_message, and every fault of the forward translation, the engine
\* call and the backward translation ends in such a response.
C25_EveryOutcomeStructured ==
    /\ call.stage \in {"ensure", "exists", "engine", "done", "http503", "http400"}
    /\ call.stage \in {"http503", "http400"} =>
         (call.response = Nothing /\ call.posts = 0)
    /\ call.stage = "done" =>
         /\ call.response # Nothing
         /\ ~call.response[1].success =>
              /\ call.response[1].error_code # Nothing
              /\ call.response[1].error_code[1] # ""
              /\ call.response[1].error_message # Nothing
         /\ FaultInTry => ~call.response[1].success

\* The client could not be made (the timeout setting is no number): no POST
\* was sent and the call was answered with a failure that carries a code.
C25_Witness ==
    /\ call.stage = "done"
    /\ call.posts = 0
    /\ call.response # Nothing
    /\ ~call.response[1].success
    /\ call.response[1].error_code = Some("PROCESSING_ERROR")

Launches(t) == pc'[t] # pc[t] /\ ~starting /\ starting'

\* C27: when a poll of _wait_for_healthy() whose probe did not succeed finds
\* that the subprocess has exited, the wait (and with it start() and
\* ensure_running()) returns false in that step and launches nothing in its
\* place; and no task launches twice within one operation.
C27_DeathEndsStartWithoutRetry ==
    [][\A t \in Tasks :
         /\ (pc[t] = "wfh_probe" /\ pc'[t] # "wfh_probe" /\ ~lastProbe'.is200
             /\ process = "exited")
              => /\ ret'[t] = "false"
                 /\ pc'[t] = "done"
                 /\ process' = process
                 /\ orphans' = orphans
                 /\ owner[t] => ~starting'
         /\ Launches(t) => "launched" \notin did[t]]_vars

\* The request that launched the subprocess has been answered 503 after the
\* subprocess exited, and nothing was launched in its place.
C27_Witness ==
    \E t \in Tasks :
      /\ op[t] = "process" /\ pc[t] = "done" /\ ret[t] = "false"
      /\ "launched" \in did[t]
      /\ status[t] = "503"
      /\ process = "exited"
      /\ ~starting
      /\ lastProbe.called /\ ~lastProbe.is200

\* C28: the step in which the Engine Client's call returns, whatever its
\* result, leaves the handle, _healthy and _starting as they were; and the
\* step in which a probe fails leaves _healthy false and changes the handle
\* only by the Popen of the start() it leads into and _starting only by that
\* start() or by the finally clause of the start() that was waiting, and
\* neither of them when the probe is that of GET /health.
C28_FailuresLeaveSupervisor ==
    [][\A t \in Tasks :
         /\ (pc[t] = "p_engine" /\ pc'[t] # "p_engine")
              => (process' = process /\ healthy' = healthy
                  /\ starting' = starting)
         /\ (ProbeAnswers(t) /\ ~lastProbe'.is200)
              => /\ ~healthy'
                 /\ process' # process => Launches(t)
                 /\ starting' # starting => (Launches(t) \/ owner[t])
                 /\ pc[t] = "hc_probe"
                      => (process' = process /\ starting' = starting)]_vars

\* An engine call has returned while another request's start was in flight:
\* the subprocess, _starting and _healthy are those the start left.
C28_Witness ==
    \E t, u \in Tasks :
      /\ t # u
      /\ op[t] = "process" /\ pc[t] = "done" /\ status[t] = "200"
      /\ "engine" \in did[t]
      /\ owner[u] /\ starting /\ process = "running"
      /\ lastProbe.called /\ ~lastProbe.is200 /\ ~healthy

\* The step reads a line that asks for process.
ProcessLineRead ==
    /\ call'.read = call.read + 1
    /\ ReadObject(call')
    /\ ActionOf(LineObject(call')) = "process"

\* The line names no model, or names (by a string) one that is not loaded.
ModelMissingOrUnknown(c) ==
    \/ "model" \notin DOMAIN LineObject(c)
    \/ /\ LineObject(c)["model"].json = "string"
       /\ LineObject(c)["model"].v \notin c.models

\* C31: a process request is validated in a fixed order before the model is
\* called: a missing or unknown model is answered MODEL_NOT_FOUND whatever
\* the paths; with a loaded model a missing input_path is answered
\* MISSING_PARAMETER for input_path whatever the output_path; and
\* model.process() is called exactly for the process requests that name a
\* loaded model and carry both paths.
C31_ValidationPrecedence ==
    [][/\ (ProcessLineRead /\ ModelMissingOrUnknown(call')) =>
            /\ Printed(call')["error_code"] = <<"MODEL_NOT_FOUND">>
            /\ call'.calls = call.calls
       /\ (ProcessLineRead /\ NamesLoadedModel(call')
           /\ ~Truthy(Get(LineObject(call'), "input_path"))) =>
            /\ Printed(call')["error_code"] = <<"MISSING_PARAMETER">>
            /\ Printed(call')["error"] = <<"input_path is required">>
            /\ call'.calls = call.calls
       /\ call'.calls # call.calls <=>
            /\ ProcessLineRead
            /\ NamesLoadedModel(call')
            /\ Truthy(Get(LineObject(call'), "input_path"))
            /\ Truthy(Get(LineObject(call'), "output_path"))]_vars

\* A process request that names an unknown model and carries no path has
\* been answered MODEL_NOT_FOUND, and the model was never called.
C31_Witness ==
    /\ ReadObject(call)
    /\ ActionOf(LineObject(call)) = "process"
    /\ "model" \in DOMAIN LineObject(call)
    /\ LineObject(call)["model"].v = <<"other">>
    /\ "input_path" \notin DOMAIN LineObject(call)
    /\ "output_path" \notin DOMAIN LineObject(call)
    /\ Printed(call)["error_code"] = <<"MODEL_NOT_FOUND">>
    /\ call.calls = 0

\* C32: no subprocess is launched over a live one: when a task calls Popen,
\* either it is restart() and its stop() has just run, or the handle does not
\* refer to a subprocess that is still running.
C32_NoLaunchOverLiveSubprocess ==
    [][\A t \in Tasks :
         Launches(t) => (pc[t] = "idle" \/ process # "running")]_vars

\* C33: _starting is true exactly while the start() that set it is inside
\* its try block: one task at most is there, it launched the subprocess and
\* is polling, and whatever else has run since (a waiter returning, stop(),
\* restart()) the flag is true while it is there and false when no task is.
C33_StartingIffStartInProgress ==
    /\ starting <=> \E t \in Tasks : owner[t]
    /\ Cardinality({t \in Tasks : owner[t]}) <= 1
    /\ \A t \in Tasks :
         owner[t] => (pc[t] \in {"wfh_probe", "wfh_sleep"}
                      /\ "launched" \in did[t])

\* stop() has run while a start was polling: the handle is cleared and the
\* flag is still that of the start in progress.
C33_Witness ==
    \E t, u \in Tasks :
      /\ owner[t] /\ pc[t] \in {"wfh_probe", "wfh_sleep"}
      /\ op[u] = "stop" /\ pc[u] = "done"
      /\ process = None
      /\ starting

\* C35: the payload posted carries the task looked up in the table for the
\* request's mode and the guidance scale 3 + intensity * 12, whatever keys
\* extra_params holds.
C35_PayloadTaskAndGuidanceScale ==
    call.stage = "sent" =>
      /\ call.payload[1]["task"] = NUEVA_TO_ACESTEP_TASK[call.request.mode]
      /\ call.payload[1]["guidance_scale"] = GuidanceScale(call.request.intensity)

\* Upload u has staged its file and has not finished.
InFlight(u) == call.up[u].at \in {"written", "engine", "cleanup"}

\* C36: uploads in flight do not interfere through the staging area: the
\* file an upload in flight has staged is at its path and holds that
\* upload's content (no other upload has removed or rewritten it), and the
\* staging paths of two uploads in flight differ.
C36_StagedFilesKept ==
    call.stage = "uploads" =>
      \A u \in Uploads :
        InFlight(u) =>
          /\ call.up[u].input_path \in DOMAIN call.files
          /\ call.files[call.up[u].input_path] = u
          /\ \A v \in Uploads \ {u} :
               InFlight(v) => call.up[v].input_path # call.up[u].input_path

\* Task t is inside ensure_running() or inside the start() of restart().
InSupervisorCall(t) == pc[t] \in {"er_probe", "wfh_probe", "wfh_sleep"}

\* C34: every ensure_running() and every restart() (hence its start())
\* returns a boolean: a task inside one of them comes to hold True or False,
\* and a task never sends a probe from the loop when startup_timeout has
\* elapsed since it entered the loop, whatever stop() or the engine does
\* meanwhile.
C34_SupervisorCallsReturn ==
    /\ \A t \in Tasks : InSupervisorCall(t) ~> (ret[t] \in {"true", "false"})
    /\ [](\A t \in Tasks :
            (call.stage = "timed" /\ pc[t] = "wfh_probe")
               => call.elapsed[t] < startup_timeout)

\* A task has polled until the timeout and returned False after stop()
\* cleared the handle.
C34_Witness ==
    /\ call.stage = "timed"
    /\ \E t, u \in Tasks :
         /\ op[u] = "stop" /\ pc[u] = "done"
         /\ process = None
         /\ "wait" \in did[t]
         /\ call.elapsed[t] = startup_timeout
         /\ ret[t] = "false"

====
